---- MODULE Spec2Model ----
(***************************************************************************)
(* CertDeliver server decision layer: TokenValidator (auth.py),            *)
(* WhitelistManager (whitelist.py) and the certificate endpoint            *)
(* get_certificate (routes.py), together with the packaging hook that      *)
(* publishes the artifact the endpoint serves (certbot_hook.py).           *)
(*                                                                         *)
(* Strings that the code takes apart (filenames, glob patterns, tokens)    *)
(* are sequences of one-character strings.  Client IPs and domain names    *)
(* are only compared and are kept as atomic strings; "" stands for a       *)
(* falsy client_ip (None or the empty string).                             *)
(***************************************************************************)
EXTENDS Integers, Sequences, FiniteSets, TLC

VARIABLES
    tokens_map,       \* TokenValidator.tokens_map: token -> list of glob patterns
    failed_attempts,  \* TokenValidator._failed_attempts: dict ip -> count
    domains,          \* WhitelistManager.domains / settings.domain_list
    cache,            \* WhitelistManager._cache: dict domain -> set of IPs
    last_update,      \* WhitelistManager._last_update: None or a time
    now,              \* datetime.now(), in seconds
    dns,              \* what socket.getaddrinfo currently answers per domain
    targets,          \* settings.targets_dir: whether it exists, its files
                      \* (name -> mtime) and the order in which it lists them
    pkg,              \* position of the packaging run (CertificatePackager.package)
    call,             \* observation of the last direct TokenValidator call
    streak,           \* history: failed validations per IP since last success/reset
    wl,               \* observation of the last direct WhitelistManager call
    req,              \* the last request received by get_certificate
    resp,             \* its response, audit records and the calls it made
    hist,             \* history: the request last answered "up to date", while
                      \* nothing but the clock has changed since
    tasks,            \* concurrent callers of one manager / validator: position
    lock,             \* WhitelistManager._lock: holder and FIFO queue of waiters
    client,           \* CertificateDownloader: cached artifact, retry position
    access,           \* a get_certificate call between its accesses to the
                      \* targets directory: position, listing, file found
    settings          \* ServerSettings as configured: the legacy token and
                      \* the multi-tenant token map

vars == <<tokens_map, failed_attempts, domains, cache, last_update, now, dns,
          targets, pkg, call, streak, wl, req, resp, hist, tasks, lock, client,
          access, settings>>

validatorVars == <<tokens_map, failed_attempts>>
whitelistVars == <<domains, cache, last_update>>
envVars       == <<now, dns>>
storeVars     == <<targets, pkg>>
flightVars    == <<tasks, lock, access, settings>>

-----------------------------------------------------------------------------
(* Character strings *)

ZIP == <<".", "z", "i", "p">>

DigitChars == <<"0", "1", "2", "3", "4", "5", "6", "7", "8", "9">>

IsDigit(c) == \E i \in 1..Len(DigitChars) : DigitChars[i] = c

DigitVal(c) == (CHOOSE i \in 1..Len(DigitChars) : DigitChars[i] = c) - 1

StartsWith(s, p) == Len(s) >= Len(p) /\ SubSeq(s, 1, Len(p)) = p

\* str.replace(".zip", ""): every non-overlapping occurrence, left to right
RECURSIVE RemoveZip(_)
RemoveZip(s) ==
    IF s = <<>> THEN <<>>
    ELSE IF StartsWith(s, ZIP) THEN RemoveZip(SubSeq(s, Len(ZIP) + 1, Len(s)))
    ELSE <<Head(s)>> \o RemoveZip(Tail(s))

\* str.rsplit("_", 1): position of the last underscore, 0 when there is none
LastUnderscore(s) ==
    IF \E i \in 1..Len(s) : s[i] = "_"
    THEN CHOOSE i \in 1..Len(s) :
            s[i] = "_" /\ \A j \in (i + 1)..Len(s) : s[j] # "_"
    ELSE 0

\* str.strip() as int() applies it (the alphabet has one whitespace character)
RECURSIVE StripLeft(_)
StripLeft(s) == IF s # <<>> /\ Head(s) = " " THEN StripLeft(Tail(s)) ELSE s

RECURSIVE StripRight(_)
StripRight(s) ==
    IF s # <<>> /\ s[Len(s)] = " " THEN StripRight(SubSeq(s, 1, Len(s) - 1)) ELSE s

Strip(s) == StripRight(StripLeft(s))

RECURSIVE DigitsValue(_)
DigitsValue(s) ==
    IF s = <<>> THEN 0
    ELSE 10 * DigitsValue(SubSeq(s, 1, Len(s) - 1)) + DigitVal(s[Len(s)])

AllDigits(s) == s # <<>> /\ \A i \in 1..Len(s) : IsDigit(s[i])

\* int(text): optional surrounding whitespace, optional sign, decimal digits
IntBody(s) == IF s # <<>> /\ Head(s) \in {"+", "-"} THEN Tail(s) ELSE s

IntOk(s) == AllDigits(IntBody(Strip(s)))

IntValue(s) ==
    IF Strip(s) # <<>> /\ Head(Strip(s)) = "-"
    THEN 0 - DigitsValue(IntBody(Strip(s)))
    ELSE DigitsValue(IntBody(Strip(s)))

-----------------------------------------------------------------------------
(* routes.py: _parse_cert_filename *)

InvalidFormat == [ok |-> FALSE, name |-> <<>>, timestamp |-> 0]

\* off-by-one on the split position: the name keeps the underscore
parse_cert_filename_keep_sep(filename) ==
    LET base_name == RemoveZip(filename)
        k == LastUnderscore(base_name)
    IN  IF k = 0 THEN InvalidFormat
        ELSE IF ~IntOk(SubSeq(base_name, k + 1, Len(base_name))) THEN InvalidFormat
        ELSE [ok |-> TRUE,
              name |-> SubSeq(base_name, 1, k),
              timestamp |-> IntValue(SubSeq(base_name, k + 1, Len(base_name)))]

parse_cert_filename(filename) ==
    LET base_name == RemoveZip(filename)
        k == LastUnderscore(base_name)
    IN  IF k = 0 THEN InvalidFormat
        ELSE IF ~IntOk(SubSeq(base_name, k + 1, Len(base_name))) THEN InvalidFormat
        ELSE [ok |-> TRUE,
              name |-> SubSeq(base_name, 1, k - 1),
              timestamp |-> IntValue(SubSeq(base_name, k + 1, Len(base_name)))]

-----------------------------------------------------------------------------
(* auth.py: verify_access *)

\* fnmatch.fnmatch(name, pat) on POSIX (normcase is the identity) for patterns
\* made of literal characters, "*" and "?"
RECURSIVE fnmatch(_, _)
fnmatch(name, pat) ==
    IF pat = <<>> THEN name = <<>>
    ELSE IF Head(pat) = "*"
         THEN fnmatch(name, Tail(pat)) \/ (name # <<>> /\ fnmatch(Tail(name), pat))
    ELSE IF Head(pat) = "?"
         THEN name # <<>> /\ fnmatch(Tail(name), Tail(pat))
    ELSE name # <<>> /\ Head(name) = Head(pat) /\ fnmatch(Tail(name), Tail(pat))

\* the permission loop is skipped: a configured token is accepted for any file
verify_access_no_patterns(provided_token, filename, tmap) ==
    IF provided_token = <<>> THEN FALSE
    ELSE \E valid_token \in DOMAIN tmap : provided_token = valid_token

verify_access(provided_token, filename, tmap) ==
    IF provided_token = <<>> THEN FALSE
    ELSE \E valid_token \in DOMAIN tmap :
            /\ provided_token = valid_token
            /\ \E i \in 1..Len(tmap[valid_token]) :
                  fnmatch(filename, tmap[valid_token][i])

-----------------------------------------------------------------------------
(* auth.py: TokenValidator *)

max_failed_attempts == 5

Get(d, k, default) == IF k \in DOMAIN d THEN d[k] ELSE default

Pop(d, k) == [x \in (DOMAIN d) \ {k} |-> d[x]]

Put(d, k, v) == [x \in (DOMAIN d) \cup {k} |-> IF x = k THEN v ELSE d[x]]

\* every validation counts against the IP, successful ones too
validate_attempts_counts_all(fa, is_valid, client_ip) ==
    IF client_ip = "" THEN fa
    ELSE Put(fa, client_ip, Get(fa, client_ip, 0) + 1)

\* the success branch forgets to clear the counter
validate_attempts_no_reset(fa, is_valid, client_ip) ==
    IF client_ip = "" THEN fa
    ELSE IF is_valid THEN fa
    ELSE Put(fa, client_ip, Get(fa, client_ip, 0) + 1)

\* TokenValidator.validate: the counters after a call whose verify_access
\* result is is_valid ("if client_ip:" skips None and the empty string)
validate_attempts(fa, is_valid, client_ip) ==
    IF client_ip = "" THEN fa
    ELSE IF is_valid THEN Pop(fa, client_ip)
    ELSE Put(fa, client_ip, Get(fa, client_ip, 0) + 1)

\* the comparison is strict: blocking starts one failure late
is_blocked_strict(fa, client_ip) == Get(fa, client_ip, 0) > max_failed_attempts

is_blocked(fa, client_ip) == Get(fa, client_ip, 0) >= max_failed_attempts

reset_attempts_clear_all(fa, client_ip) == [x \in {} |-> fa[x]]

reset_attempts(fa, client_ip) == Pop(fa, client_ip)

-----------------------------------------------------------------------------
(* whitelist.py: WhitelistManager *)

cache_ttl_seconds == 300

Range(seq) == {seq[i] : i \in 1..Len(seq)}

CachedIPs(c) == UNION {c[d] : d \in DOMAIN c}

\* the boundary is included: a cache exactly one TTL old still counts as valid
is_cache_valid_inclusive(lu, t) == lu # <<>> /\ t - lu[1] <= cache_ttl_seconds

is_cache_valid(lu, t) == lu # <<>> /\ t - lu[1] < cache_ttl_seconds

\* _resolve_domain_sync: every exception of getaddrinfo is caught and logged,
\* and the empty set built before the call is returned
resolve_domain_sync(d, answers) == IF answers[d].err THEN {} ELSE answers[d].ips

\* _resolve_domain / asyncio.gather(return_exceptions=True): the result for a
\* domain is what the synchronous resolver returned, never an exception object
resolve_domain(d, answers) ==
    [is_exception |-> FALSE, ips |-> resolve_domain_sync(d, answers)]

\* the loop over zip(self.domains, results) that builds new_cache
new_cache(c, doms, answers) ==
    LET kept == {d \in Range(doms) :
                   resolve_domain(d, answers).is_exception => d \in DOMAIN c}
    IN  [d \in kept |->
            IF resolve_domain(d, answers).is_exception
            THEN c[d]
            ELSE resolve_domain(d, answers).ips]

\* refresh_cache(force) on the manager state w = (cache, last_update), at time t,
\* with the resolver answering `answers`; passes counts the resolution passes
refresh_cache(w, doms, force, t, answers) ==
    IF ~force /\ is_cache_valid(w.last_update, t)
    THEN w
    ELSE [w EXCEPT !.cache = new_cache(w.cache, doms, answers),
                   !.last_update = <<t>>,
                   !.passes = @ + 1]

\* a miss is answered from an empty cache as "whitelisted" (fail-open)
is_whitelisted_fail_open(w, doms, client_ip, t, answers) ==
    LET w1 == refresh_cache(w, doms, FALSE, t, answers)
        w2 == refresh_cache(w1, doms, TRUE, t, answers)
    IN  IF client_ip \in CachedIPs(w1.cache)
        THEN [w1 EXCEPT !.result = TRUE]
        ELSE [w2 EXCEPT !.result = (client_ip \in CachedIPs(w2.cache)
                                      \/ CachedIPs(w2.cache) = {})]

is_whitelisted(w, doms, client_ip, t, answers) ==
    LET w1 == refresh_cache(w, doms, FALSE, t, answers)
        w2 == refresh_cache(w1, doms, TRUE, t, answers)
    IN  IF client_ip \in CachedIPs(w1.cache)
        THEN [w1 EXCEPT !.result = TRUE]
        ELSE [w2 EXCEPT !.result = (client_ip \in CachedIPs(w2.cache))]

Manager(c, lu) == [cache |-> c, last_update |-> lu, passes |-> 0, result |-> TRUE]

-----------------------------------------------------------------------------
(* Values the variables hold before anything has happened *)

EmptyDict == <<>>

NoFile == <<>>

NoCall == [made |-> FALSE, token |-> <<>>, filename |-> <<>>, is_valid |-> FALSE]

NoWl == [op |-> "none", force |-> FALSE, client_ip |-> "", result |-> FALSE,
         passes |-> 0]

NoRequest == [client_ip |-> "", token |-> <<>>, file_name |-> <<>>, download |-> FALSE]

NoResponse ==
    [status_code |-> 0, kind |-> "none", status |-> "none", message |-> "none",
     path |-> NoFile, audit |-> <<>>, local_cert |-> NoFile,
     validate_calls |-> 0, passes |-> 0, repeat |-> FALSE]

NoTargets == [exists |-> FALSE, files |-> EmptyDict, order |-> <<>>]

\* a caller that is not inside a call
IdleTask ==
    [pc |-> "idle", op |-> "none", client_ip |-> "", force |-> FALSE, stage |-> 0,
     waited |-> FALSE, passes |-> 0, forced |-> 0, result |-> FALSE, read |-> 0]

Tasks == {"t1", "t2", "t3"}

NoTasks == [t \in Tasks |-> IdleTask]

\* asyncio.Lock(): not locked, nobody waiting
FreeLock == [holder |-> "", waiters |-> <<>>]

\* a downloader whose cache directory is empty and that is not inside update();
\* got is history: the server file whose content the cached file holds
NoSettings == [token |-> <<>>, tokens |-> <<>>]

NoAccess ==
    [pc |-> "idle", r |-> NoRequest, zip_files |-> <<>>, local_cert |-> NoFile,
     raised |-> FALSE]

\* an update() run of the client taken step by step: the answers received by
\* _download_certificate and its sleeps, then what _install_certificate and
\* the post-update command did (log), with the destination directory and its
\* backup; dest0 is the destination as the run found it, and cached tells
\* whether the cache directory is empty or holds the artifact of an earlier run
\* ("previous") or the one this run downloaded
NoRun ==
    [pc |-> "idle", command |-> "", answers |-> <<>>, sleeps |-> <<>>,
     archive |-> "none", had_dest |-> FALSE, log |-> <<>>, installed |-> FALSE,
     reload_ok |-> TRUE, result |-> "none", dest |-> "absent", bak |-> "absent",
     dest0 |-> "absent", cached |-> "none"]

NoClient ==
    [cache |-> NoFile, got |-> NoFile, attempt |-> 0, remote_filename |-> NoFile,
     run |-> NoRun]

-----------------------------------------------------------------------------
(* Inputs *)

IP1 == "10.0.0.1"
IP2 == "10.0.0.2"

RealIPs == {IP1, IP2}

\* client_ip arguments of direct validate calls: two addresses and a falsy one
CallIPs == RealIPs \cup {""}

TokMaster  == <<"m", "1">>
TokClientA == <<"c", "a">>
TokClientB == <<"c", "b">>
TokUnknown == <<"x", "x">>
TokEmpty   == <<>>

ProvidedTokens == {TokMaster, TokClientA, TokClientB, TokUnknown, TokEmpty}

PatAll   == <<"*">>
PatA     == <<"a", "_", "*">>
PatAZip  == <<"a", "_", "*", ".", "z", "i", "p">>
PatBOne  == <<"b", "_", "?">>

\* the configurations a TokenValidator is constructed with
TokenMaps ==
    { (TokMaster :> <<PatAll>>) @@ (TokClientA :> <<PatA>>),
      (TokClientA :> <<PatAZip, PatBOne>>) @@ (TokClientB :> <<>>),
      EmptyDict }

F_a_0     == <<"a", "_", "0">>
F_a_m1    == <<"a", "_", "-", "1">>
F_a_300   == <<"a", "_", "3", "0", "0">>
F_a_0_zip == <<"a", "_", "0", ".", "z", "i", "p">>
F_b_0     == <<"b", "_", "0">>
F_a_x     == <<"a", "_", "x">>
F_b       == <<"b">>

AuthFiles == {F_a_0, F_a_0_zip, F_b_0, F_a_x, F_b, <<>>}

-----------------------------------------------------------------------------
(* Direct calls on a TokenValidator (as the unit tests make them) *)

MaxDirectFailures == 6

InitAuth ==
    /\ tokens_map \in TokenMaps
    /\ failed_attempts = EmptyDict
    /\ streak = [ip \in RealIPs |-> 0]
    /\ call = NoCall
    /\ domains = <<>>
    /\ cache = EmptyDict
    /\ last_update = <<>>
    /\ now = 0
    /\ dns = EmptyDict
    /\ targets = NoTargets
    /\ pkg = "idle"
    /\ wl = NoWl
    /\ req = NoRequest
    /\ resp = NoResponse
    /\ hist = NoRequest
    /\ tasks = NoTasks
    /\ lock = FreeLock
    /\ access = NoAccess
    /\ settings = NoSettings
    /\ client = NoClient

\* validator.validate(token, filename, client_ip)
Validate(token, filename, client_ip) ==
    LET is_valid == verify_access(token, filename, tokens_map)
    IN  /\ Get(failed_attempts, client_ip, 0) < MaxDirectFailures
        /\ failed_attempts' = validate_attempts(failed_attempts, is_valid, client_ip)
        /\ call' = [made |-> TRUE, token |-> token, filename |-> filename,
                    is_valid |-> is_valid]
        /\ streak' = IF client_ip \notin RealIPs THEN streak
                     ELSE IF is_valid THEN [streak EXCEPT ![client_ip] = 0]
                     ELSE [streak EXCEPT ![client_ip] = @ + 1]
        /\ UNCHANGED <<tokens_map, whitelistVars, envVars, storeVars, wl, req, resp,
                     hist, flightVars, client>>

\* validator.reset_attempts(client_ip)
ResetAttempts(client_ip) ==
    /\ failed_attempts' = reset_attempts(failed_attempts, client_ip)
    /\ streak' = [streak EXCEPT ![client_ip] = 0]
    /\ UNCHANGED <<tokens_map, call, whitelistVars, envVars, storeVars, wl, req, resp,
                 hist, flightVars, client>>

NextAuth ==
    \/ \E token \in ProvidedTokens, filename \in AuthFiles, client_ip \in CallIPs :
          Validate(token, filename, client_ip)
    \/ \E client_ip \in RealIPs : ResetAttempts(client_ip)

SpecAuth == InitAuth /\ [][NextAuth]_vars

-----------------------------------------------------------------------------
(* What a glob pattern denotes, stated without the matching algorithm: a     *)
(* name matches when each "*" of the pattern can be replaced by a run of     *)
(* arbitrary characters so that the result has the name's length and agrees  *)
(* with the name at every position that is not "?" or part of such a run.    *)

RECURSIVE Run(_)
Run(n) == IF n = 0 THEN <<>> ELSE <<"*">> \o Run(n - 1)

RECURSIVE Expand(_, _, _)
Expand(pat, lens, i) ==
    IF i > Len(pat) THEN <<>>
    ELSE (IF pat[i] = "*" THEN Run(lens[i]) ELSE <<pat[i]>>) \o Expand(pat, lens, i + 1)

GlobDenotes(name, pat) ==
    LET stars == {i \in 1..Len(pat) : pat[i] = "*"}
    IN  \E lens \in [stars -> 0..Len(name)] :
           LET e == Expand(pat, lens, 1)
           IN  /\ Len(e) = Len(name)
               /\ \A j \in 1..Len(e) : e[j] \in {"*", "?"} \/ e[j] = name[j]

Patterns(tmap, t) == {tmap[t][i] : i \in 1..Len(tmap[t])}

\* C4: validation succeeds exactly when the token is non-empty, is a configured
\* token, and the filename matches at least one glob pattern of that token; a
\* token that owns "*" is authorized for every filename, and a configured token
\* none of whose patterns matches the filename is denied.
C4_ValidateIffConfiguredAndMatching ==
    call.made =>
      /\ call.is_valid <=>
            /\ call.token # <<>>
            /\ call.token \in DOMAIN tokens_map
            /\ \E p \in Patterns(tokens_map, call.token) : GlobDenotes(call.filename, p)
      /\ ( /\ call.token # <<>>
           /\ call.token \in DOMAIN tokens_map
           /\ PatAll \in Patterns(tokens_map, call.token) ) => call.is_valid

\* a configured token was denied a file that none of its (non-empty list of)
\* patterns matches, in a map where another of its patterns matches other files
C4_Witness ==
    /\ call.made
    /\ ~call.is_valid
    /\ call.token = TokClientA
    /\ call.token \in DOMAIN tokens_map
    /\ tokens_map[call.token] = <<PatAZip, PatBOne>>
    /\ call.filename = F_a_0

\* C5: for every client IP, is_blocked(ip) is true exactly when the number of
\* failed validations carrying that IP since its last success or reset is at
\* least the threshold; after a success (or reset) the counter entry is absent.
C5_BlockedIffThresholdFailures ==
    \A ip \in RealIPs :
       /\ is_blocked(failed_attempts, ip) <=> streak[ip] >= 5
       /\ streak[ip] = 0 => ip \notin DOMAIN failed_attempts

\* one address has just had its 5th failure in a row and is blocked while the
\* other, after 4 failures, is not
C5_Witness ==
    /\ streak[IP1] = 5
    /\ is_blocked(failed_attempts, IP1)
    /\ streak[IP2] = 4
    /\ ~is_blocked(failed_attempts, IP2)

-----------------------------------------------------------------------------
(* routes.py: the certificate endpoint *)

EndsWith(s, p) == Len(s) >= Len(p) /\ SubSeq(s, Len(s) - Len(p) + 1, Len(s)) = p

IsZip(f) == EndsWith(f, ZIP)

\* the first .zip file of the listing, whatever its st_mtime
find_local_cert_file_first_listed(t) ==
    LET zip_files == SelectSeq(t.order, IsZip)
    IN  IF ~t.exists \/ zip_files = <<>> THEN {NoFile} ELSE {zip_files[1]}

\* max() may return any of the files that share the greatest st_mtime
find_local_cert_file_any_newest(t) ==
    LET zip_files == SelectSeq(t.order, IsZip)
    IN  IF ~t.exists \/ zip_files = <<>> THEN {NoFile}
        ELSE {zip_files[i] : i \in
                 {i \in 1..Len(zip_files) :
                     \A j \in 1..Len(zip_files) :
                        t.files[zip_files[i]] >= t.files[zip_files[j]]}}

\* _find_local_cert_file: what the call returns (NoFile for None), as a set of
\* one element.  glob("*.zip") yields the files in the directory's listing
\* order; with several of them max() returns the first one of the greatest
\* st_mtime in that order.
find_local_cert_file(t) ==
    LET zip_files == SelectSeq(t.order, IsZip)
    IN  IF ~t.exists \/ zip_files = <<>> THEN {NoFile}
        ELSE {zip_files[CHOOSE i \in 1..Len(zip_files) :
                 /\ \A j \in 1..Len(zip_files) :
                       t.files[zip_files[i]] >= t.files[zip_files[j]]
                 /\ \A j \in 1..(i - 1) :
                       t.files[zip_files[j]] < t.files[zip_files[i]]]}

visible_chars == 4

\* token[-n:] for n >= 0: a slice from index -n, and -0 is index 0
LastChars(token, n) ==
    IF n = 0 THEN token
    ELSE SubSeq(token, (IF Len(token) > n THEN Len(token) - n ELSE 0) + 1, Len(token))

\* auth.py: sanitize_log_token with its visible_chars argument
sanitize_log_token_showing(token, n) ==
    IF token = <<>> \/ Len(token) <= n
    THEN <<"*", "*", "*">>
    ELSE <<"*", "*", "*">> \o LastChars(token, n)

\* auth.py: sanitize_log_token with the default visible_chars, as _log_audit
\* calls it
sanitize_log_token(token) == sanitize_log_token_showing(token, visible_chars)

\* _log_audit: the record written for request r (the user agent and the wall
\* clock timestamp of the record are not modelled)
Audit(r, status, reason, name) ==
    [client_ip |-> r.client_ip,
     filename |-> r.file_name,
     status |-> status,
     token_masked |-> IF r.token # <<>> THEN sanitize_log_token(r.token)
                      ELSE <<"n", "o", "n", "e">>,
     reason |-> [text |-> reason, name |-> name]]

JsonResponse(code, status, message, audit) ==
    [status_code |-> code, kind |-> "json", status |-> status, message |-> message,
     path |-> NoFile, audit |-> audit]

FileResponse(path, audit) ==
    [status_code |-> 200, kind |-> "file", status |-> "none", message |-> "none",
     path |-> path, audit |-> audit]

\* a conditional check below a fixed timestamp floor is rejected as illegal
freshness_epoch_floor(r, local_cert, lp, rp) ==
    IF r.download
    THEN IF lp.name = rp.name
         THEN FileResponse(local_cert,
                  <<Audit(r, "success_download", "forced_download", <<>>)>>)
         ELSE JsonResponse(404, "error", "Certificate not found",
                  <<Audit(r, "denied", "download_name_mismatch_expected_", lp.name)>>)
    ELSE IF lp.name # rp.name
         THEN JsonResponse(400, "error", "Certificate name mismatch",
                  <<Audit(r, "denied", "update_check_name_mismatch_expected_", lp.name)>>)
    ELSE IF rp.timestamp < 100
         THEN JsonResponse(400, "error", "Invalid timestamp", <<>>)
    ELSE IF lp.timestamp = rp.timestamp
         THEN JsonResponse(200, "ok", "Certificate is up to date",
                  <<Audit(r, "success_up_to_date", "", <<>>)>>)
    ELSE IF lp.timestamp > rp.timestamp
         THEN FileResponse(local_cert, <<>>)
    ELSE JsonResponse(400, "error", "Invalid timestamp", <<>>)

\* a forced download is served only when the requested timestamp is not newer
freshness_download_compares(r, local_cert, lp, rp) ==
    IF r.download
    THEN IF lp.name = rp.name /\ lp.timestamp >= rp.timestamp
         THEN FileResponse(local_cert,
                  <<Audit(r, "success_download", "forced_download", <<>>)>>)
         ELSE JsonResponse(404, "error", "Certificate not found",
                  <<Audit(r, "denied", "download_name_mismatch_expected_", lp.name)>>)
    ELSE IF lp.name # rp.name
         THEN JsonResponse(400, "error", "Certificate name mismatch",
                  <<Audit(r, "denied", "update_check_name_mismatch_expected_", lp.name)>>)
    ELSE IF lp.timestamp = rp.timestamp
         THEN JsonResponse(200, "ok", "Certificate is up to date",
                  <<Audit(r, "success_up_to_date", "", <<>>)>>)
    ELSE IF lp.timestamp > rp.timestamp
         THEN FileResponse(local_cert, <<>>)
    ELSE JsonResponse(400, "error", "Invalid timestamp", <<>>)

\* get_certificate, lines 265-325: download mode and update check mode, for
\* the parsed local name lp and the parsed requested name rp
freshness(r, local_cert, lp, rp) ==
    IF r.download
    THEN IF lp.name = rp.name
         THEN FileResponse(local_cert,
                  <<Audit(r, "success_download", "forced_download", <<>>)>>)
         ELSE JsonResponse(404, "error", "Certificate not found",
                  <<Audit(r, "denied", "download_name_mismatch_expected_", lp.name)>>)
    ELSE IF lp.name # rp.name
         THEN JsonResponse(400, "error", "Certificate name mismatch",
                  <<Audit(r, "denied", "update_check_name_mismatch_expected_", lp.name)>>)
    ELSE IF lp.timestamp = rp.timestamp
         THEN JsonResponse(200, "ok", "Certificate is up to date",
                  <<Audit(r, "success_up_to_date", "", <<>>)>>)
    ELSE IF lp.timestamp > rp.timestamp
         THEN FileResponse(local_cert, <<>>)
    ELSE JsonResponse(400, "error", "Invalid timestamp", <<>>)

\* the requested filename is parsed before the artifact is looked up
deliver_remote_first(r, local_cert, lp, rp) ==
    IF ~rp.ok
    THEN JsonResponse(400, "error", "Invalid filename format",
             <<Audit(r, "denied", "client_invalid_filename_format", <<>>)>>)
    ELSE IF local_cert = NoFile
    THEN JsonResponse(404, "error", "No certificate file available",
             <<Audit(r, "error", "server_no_local_cert_file", <<>>)>>)
    ELSE IF ~lp.ok
    THEN JsonResponse(500, "error", "Server configuration error",
             <<Audit(r, "error", "server_invalid_local_filename", <<>>)>>)
    ELSE freshness(r, local_cert, lp, rp)

\* get_certificate, lines 231-263, then the freshness decision: local_cert is
\* what _find_local_cert_file returned, lp and rp are what _parse_cert_filename
\* gives for local_cert.name and for the requested file_name
deliver(r, local_cert, lp, rp) ==
    IF local_cert = NoFile
    THEN JsonResponse(404, "error", "No certificate file available",
             <<Audit(r, "error", "server_no_local_cert_file", <<>>)>>)
    ELSE IF ~lp.ok
    THEN JsonResponse(500, "error", "Server configuration error",
             <<Audit(r, "error", "server_invalid_local_filename", <<>>)>>)
    ELSE IF ~rp.ok
    THEN JsonResponse(400, "error", "Invalid filename format",
             <<Audit(r, "denied", "client_invalid_filename_format", <<>>)>>)
    ELSE freshness(r, local_cert, lp, rp)

\* the token is validated first and the block check comes after it
authenticate_validate_first(r, fa, tmap) ==
    LET is_valid == verify_access(r.token, r.file_name, tmap)
        fa2 == validate_attempts(fa, is_valid, r.client_ip)
    IN  IF ~is_valid
        THEN [pass |-> FALSE, failed_attempts |-> fa2, validate_calls |-> 1,
              out |-> JsonResponse(403, "error", "Unauthorized access",
                   <<Audit(r, "denied", "unauthorized_or_invalid_token", <<>>)>>)]
        ELSE IF is_blocked(fa, r.client_ip)
        THEN [pass |-> FALSE, failed_attempts |-> fa2, validate_calls |-> 1,
              out |-> JsonResponse(429, "error", "Too many failed authentication attempts",
                   <<Audit(r, "denied", "client_blocked", <<>>)>>)]
        ELSE [pass |-> TRUE, failed_attempts |-> fa2, validate_calls |-> 1,
              out |-> NoResponse]

\* a blocked IP that presents a valid token is validated, which clears its
\* counter
authenticate_valid_token_unblocks(r, fa, tmap) ==
    LET is_valid == verify_access(r.token, r.file_name, tmap)
        fa2 == validate_attempts(fa, is_valid, r.client_ip)
    IN  IF is_blocked(fa, r.client_ip) /\ ~is_valid
        THEN [pass |-> FALSE, failed_attempts |-> fa, validate_calls |-> 0,
              out |-> JsonResponse(429, "error", "Too many failed authentication attempts",
                   <<Audit(r, "denied", "client_blocked", <<>>)>>)]
        ELSE IF ~is_valid
        THEN [pass |-> FALSE, failed_attempts |-> fa2, validate_calls |-> 1,
              out |-> JsonResponse(403, "error", "Unauthorized access",
                   <<Audit(r, "denied", "unauthorized_or_invalid_token", <<>>)>>)]
        ELSE [pass |-> TRUE, failed_attempts |-> fa2, validate_calls |-> 1,
              out |-> NoResponse]

\* get_certificate, lines 194-229: block check, then token validation against
\* the requested filename as sent (target_file = file_name on both paths)
authenticate(r, fa, tmap) ==
    LET is_valid == verify_access(r.token, r.file_name, tmap)
        fa2 == validate_attempts(fa, is_valid, r.client_ip)
    IN  IF is_blocked(fa, r.client_ip)
        THEN [pass |-> FALSE, failed_attempts |-> fa, validate_calls |-> 0,
              out |-> JsonResponse(429, "error", "Too many failed authentication attempts",
                   <<Audit(r, "denied", "client_blocked", <<>>)>>)]
        ELSE IF ~is_valid
        THEN [pass |-> FALSE, failed_attempts |-> fa2, validate_calls |-> 1,
              out |-> JsonResponse(403, "error", "Unauthorized access",
                   <<Audit(r, "denied", "unauthorized_or_invalid_token", <<>>)>>)]
        ELSE [pass |-> TRUE, failed_attempts |-> fa2, validate_calls |-> 1,
              out |-> NoResponse]

NotWhitelisted(r) ==
    JsonResponse(403, "error", "Client IP not in whitelist",
        <<Audit(r, "denied", "client_not_whitelisted", <<>>)>>)

Answer(out, fa, local_cert, calls) ==
    [out |-> out, failed_attempts |-> fa, local_cert |-> local_cert,
     validate_calls |-> calls]

\* the artifact is looked up before the token is validated
respond_lookup_first(r, whitelisted, fa, a, local_cert, lp, rp) ==
    IF ~whitelisted THEN Answer(NotWhitelisted(r), fa, NoFile, 0)
    ELSE IF local_cert = NoFile
    THEN Answer(deliver(r, local_cert, lp, rp), fa, local_cert, 0)
    ELSE IF ~a.pass THEN Answer(a.out, a.failed_attempts, NoFile, a.validate_calls)
    ELSE Answer(deliver(r, local_cert, lp, rp), a.failed_attempts, local_cert,
                a.validate_calls)

\* a request that passes authentication is not subjected to the whitelist
respond_token_first(r, whitelisted, fa, a, local_cert, lp, rp) ==
    IF ~whitelisted /\ ~a.pass THEN Answer(NotWhitelisted(r), fa, NoFile, 0)
    ELSE IF ~a.pass THEN Answer(a.out, a.failed_attempts, NoFile, a.validate_calls)
    ELSE Answer(deliver(r, local_cert, lp, rp), a.failed_attempts, local_cert,
                a.validate_calls)

\* a whitelist denial is counted as a failed attempt of the IP
respond_whitelist_denial_counts(r, whitelisted, fa, a, local_cert, lp, rp) ==
    IF ~whitelisted
    THEN Answer(NotWhitelisted(r), validate_attempts(fa, FALSE, r.client_ip), NoFile, 0)
    ELSE IF ~a.pass THEN Answer(a.out, a.failed_attempts, NoFile, a.validate_calls)
    ELSE Answer(deliver(r, local_cert, lp, rp), a.failed_attempts, local_cert,
                a.validate_calls)

\* get_certificate, lines 184-263: the order of the steps.  whitelisted is the
\* result of the whitelist step (TRUE when the step is skipped), a the result
\* of the block check and token validation on the counters fa.
respond(r, whitelisted, fa, a, local_cert, lp, rp) ==
    IF ~whitelisted THEN Answer(NotWhitelisted(r), fa, NoFile, 0)
    ELSE IF ~a.pass THEN Answer(a.out, a.failed_attempts, NoFile, a.validate_calls)
    ELSE Answer(deliver(r, local_cert, lp, rp), a.failed_attempts, local_cert,
                a.validate_calls)

-----------------------------------------------------------------------------
(* The server, its clock and resolver, and the packaging hook.               *)
(* req and resp describe the request handled by the step that led to the     *)
(* current state; every other step clears them (likewise wl for a direct     *)
(* WhitelistManager call).                                                   *)

MaxTicks == 1

D1 == "d1.example"
D2 == "d2.example"

\* what getaddrinfo can answer for a domain: an error, or a set of addresses
Answers ==
    {[err |-> TRUE, ips |-> {}]} \cup {[err |-> FALSE, ips |-> {ip}] : ip \in RealIPs}

\* the token map of the multi-tenant tests: a master token and a scoped one
ServerTokens == (TokMaster :> <<PatAll>>) @@ (TokClientA :> <<PatA>>)

RequestIPs == {IP1}

RequestTokens == {TokMaster, TokClientA, TokUnknown, TokEmpty}

RequestFiles == {F_a_m1, F_a_0, F_a_300, F_a_0_zip, F_b_0, F_a_x}

\* hook settings.cert_name
cert_name == <<"a">>

\* a .zip file that something other than the hook leaves in the directory
F_bk_zip == <<"b", "k", ".", "z", "i", "p">>

ForeignFiles == {F_bk_zip}

RECURSIVE IntToStr(_)
IntToStr(n) ==
    IF n < 0 THEN <<"-">> \o IntToStr(0 - n)
    ELSE IF n < 10 THEN <<DigitChars[n + 1]>>
    ELSE IntToStr(n \div 10) \o <<DigitChars[(n % 10) + 1]>>

\* _create_zip_archive: f"{self.cert_name}_{timestamp}.zip"
output_filename(t) == cert_name \o <<"_">> \o IntToStr(t) \o ZIP

\* the whitelist step of get_certificate (lines 184-186): skipped when
\* settings.domain_list is empty
whitelist_step(doms, c, lu, client_ip, t, answers) ==
    IF doms # <<>>
    THEN is_whitelisted(Manager(c, lu), doms, client_ip, t, answers)
    ELSE Manager(c, lu)

\* GET /api/v1/{file_name}?token=...&download=... from client_ip
get_certificate(client_ip, token, file_name, download) ==
    \E r \in {[client_ip |-> client_ip, token |-> token, file_name |-> file_name,
                download |-> download]} :
    \E w \in {whitelist_step(domains, cache, last_update, client_ip, now, dns)} :
    \E a \in {authenticate(r, failed_attempts, tokens_map)} :
    \E local_cert \in find_local_cert_file(targets) :
    \E lp \in {parse_cert_filename(local_cert)} :
    \E rp \in {parse_cert_filename(file_name)} :
    \E ans \in {respond(r, w.result, failed_attempts, a, local_cert, lp, rp)} :
       /\ req' = r
       /\ resp' = [status_code |-> ans.out.status_code, kind |-> ans.out.kind,
                   status |-> ans.out.status, message |-> ans.out.message,
                   path |-> ans.out.path, audit |-> ans.out.audit,
                   local_cert |-> ans.local_cert,
                   validate_calls |-> ans.validate_calls, passes |-> w.passes,
                   repeat |-> (hist = r)]
       /\ failed_attempts' = ans.failed_attempts
       /\ cache' = w.cache
       /\ last_update' = w.last_update
       /\ hist' = IF ans.out.status = "ok" THEN r ELSE NoRequest
       /\ UNCHANGED <<tokens_map, domains, envVars, storeVars, call, streak, wl,
                      flightVars>>

Cleared == req' = NoRequest /\ resp' = NoResponse /\ wl' = NoWl

\* time passes by one cache TTL
Tick ==
    /\ now < MaxTicks * cache_ttl_seconds
    /\ now' = now + cache_ttl_seconds
    /\ Cleared
    /\ UNCHANGED <<validatorVars, whitelistVars, dns, storeVars, call, streak, hist,
                 flightVars, client>>

\* the addresses of a domain change, or its lookup starts or stops failing
DnsChange(d, answer) ==
    /\ d \in DOMAIN dns
    /\ dns[d] # answer
    /\ dns' = [dns EXCEPT ![d] = answer]
    /\ Cleared
    /\ hist' = NoRequest
    /\ UNCHANGED <<validatorVars, whitelistVars, now, storeVars, call, streak,
                   flightVars, client>>

\* the run keeps what the output directory holds
PackageRmtree_keeps_files ==
    /\ pkg = "idle"
    /\ pkg' = "removed"
    /\ Cleared
    /\ hist' = NoRequest
    /\ UNCHANGED <<validatorVars, whitelistVars, envVars, targets, call, streak,
                   flightVars, client>>

\* package() / _prepare_output_dir: shutil.rmtree when the directory exists
PackageRmtree ==
    /\ pkg = "idle"
    /\ pkg' = "removed"
    /\ targets' = NoTargets
    /\ Cleared
    /\ hist' = NoRequest
    /\ UNCHANGED <<validatorVars, whitelistVars, envVars, call, streak,
                   flightVars, client>>

\* _prepare_output_dir: mkdir(parents=True, exist_ok=True)
PackageMkdir ==
    /\ pkg = "removed"
    /\ pkg' = "ready"
    /\ targets' = [targets EXCEPT !.exists = TRUE]
    /\ Cleared
    /\ hist' = NoRequest
    /\ UNCHANGED <<validatorVars, whitelistVars, envVars, call, streak,
                   flightVars, client>>

\* a file is created or rewritten in directory t at time mtime; a new name
\* takes the position pos of the listing, a rewritten one keeps its position
WriteFile(t, f, mtime, pos) ==
    [t EXCEPT !.files = Put(@, f, mtime),
              !.order = IF f \in DOMAIN t.files THEN @
                        ELSE SubSeq(@, 1, pos - 1) \o <<f>> \o SubSeq(@, pos, Len(@))]

\* _create_zip_archive, lines 110-119: zipfile.ZipFile(output_path, "w") creates
\* the archive, named after the current time, in the output directory itself;
\* its members are not written yet
PackageCreateZip ==
    /\ pkg = "ready"
    /\ pkg' = "writing"
    /\ \E pos \in 1..(Len(targets.order) + 1) :
          targets' = WriteFile(targets, output_filename(now), now, pos)
    /\ Cleared
    /\ hist' = NoRequest
    /\ UNCHANGED <<validatorVars, whitelistVars, envVars, call, streak,
                   flightVars, client>>

\* the archive the run has created and not yet closed
Writing ==
    IF pkg = "writing" THEN {f \in DOMAIN targets.files : StartsWith(f, cert_name \o <<"_">>)}
    ELSE {}

\* _create_zip_archive, lines 120-134: the members are written and the archive
\* is closed; package() returns its path
PackageCloseZip ==
    /\ pkg = "writing"
    /\ pkg' = "idle"
    /\ \E f \in Writing : targets' = WriteFile(targets, f, now, 1)
    /\ Cleared
    /\ hist' = NoRequest
    /\ UNCHANGED <<validatorVars, whitelistVars, envVars, call, streak,
                   flightVars, client>>

\* another process leaves a .zip file in the existing targets directory
PlaceFile(f) ==
    /\ targets.exists
    /\ f \notin DOMAIN targets.files
    /\ \E pos \in 1..(Len(targets.order) + 1) :
          targets' = WriteFile(targets, f, now, pos)
    /\ Cleared
    /\ hist' = NoRequest
    /\ UNCHANGED <<validatorVars, whitelistVars, envVars, pkg, call, streak,
                   flightVars, client>>

Requests ==
    \E client_ip \in RequestIPs, token \in RequestTokens,
       file_name \in RequestFiles, download \in BOOLEAN :
       /\ get_certificate(client_ip, token, file_name, download)
       /\ UNCHANGED client

ServerInit(doms, store) ==
    /\ tokens_map = ServerTokens
    /\ failed_attempts = EmptyDict
    /\ domains = doms
    /\ cache = EmptyDict
    /\ last_update = <<>>
    /\ now = 0
    /\ dns \in [Range(doms) -> Answers]
    /\ targets = store
    /\ pkg = "idle"
    /\ streak = [ip \in RealIPs |-> 0]
    /\ call = NoCall
    /\ wl = NoWl
    /\ req = NoRequest
    /\ resp = NoResponse
    /\ hist = NoRequest
    /\ tasks = NoTasks
    /\ lock = FreeLock
    /\ access = NoAccess
    /\ settings = NoSettings
    /\ client = NoClient

(* Open mode (no whitelist domain configured), with the packaging hook and   *)
(* other processes changing the targets directory between requests.          *)

Init == ServerInit(<<>>, NoTargets)

Next ==
    \/ Requests
    \/ Tick
    \/ PackageRmtree
    \/ PackageMkdir
    \/ PackageCreateZip
    \/ PackageCloseZip
    \/ \E f \in ForeignFiles : PlaceFile(f)

Spec == Init /\ [][Next]_vars

(* Open mode or one whitelisted domain, with the resolver's answers changing *)
(* and the cache ageing between requests; the targets directory is in one of *)
(* the states the hook and other processes leave it in.                      *)

DomainLists == {<<>>, <<D1>>}

Stores ==
    { NoTargets,
      WriteFile([NoTargets EXCEPT !.exists = TRUE], output_filename(0), 0, 1),
      WriteFile([NoTargets EXCEPT !.exists = TRUE], F_bk_zip, 0, 1) }
    \cup
    \* the archive and a foreign .zip of the same mtime, listed in either order
    { WriteFile(WriteFile([NoTargets EXCEPT !.exists = TRUE], F_bk_zip, 0, 1),
                output_filename(0), 0, pos) : pos \in 1..2 }

InitGate == \E doms \in DomainLists, store \in Stores : ServerInit(doms, store)

NextGate ==
    \/ Requests
    \/ Tick
    \/ \E d \in {D1, D2}, answer \in Answers : DnsChange(d, answer)

SpecGate == InitGate /\ [][NextGate]_vars

-----------------------------------------------------------------------------
(* Direct calls on a WhitelistManager with two domains *)

InitWL ==
    /\ tokens_map = ServerTokens
    /\ failed_attempts = EmptyDict
    /\ domains = <<D1, D2>>
    /\ cache = EmptyDict
    /\ last_update = <<>>
    /\ now = 0
    /\ dns \in [Range(domains) -> Answers]
    /\ targets = NoTargets
    /\ pkg = "idle"
    /\ streak = [ip \in RealIPs |-> 0]
    /\ call = NoCall
    /\ wl = NoWl
    /\ req = NoRequest
    /\ resp = NoResponse
    /\ hist = NoRequest
    /\ tasks = NoTasks
    /\ lock = FreeLock
    /\ access = NoAccess
    /\ settings = NoSettings
    /\ client = NoClient

\* await manager.refresh_cache(force)
RefreshCache(force) ==
    \E w \in {refresh_cache(Manager(cache, last_update), domains, force, now, dns)} :
       /\ cache' = w.cache
       /\ last_update' = w.last_update
       /\ wl' = [op |-> "refresh_cache", force |-> force, client_ip |-> "",
                 result |-> TRUE, passes |-> w.passes]
       /\ UNCHANGED <<validatorVars, domains, envVars, storeVars, call, streak,
                      req, resp, hist, flightVars, client>>

\* await manager.is_whitelisted(client_ip)
IsWhitelisted(client_ip) ==
    \E w \in {is_whitelisted(Manager(cache, last_update), domains, client_ip, now, dns)} :
       /\ cache' = w.cache
       /\ last_update' = w.last_update
       /\ wl' = [op |-> "is_whitelisted", force |-> FALSE, client_ip |-> client_ip,
                 result |-> w.result, passes |-> w.passes]
       /\ UNCHANGED <<validatorVars, domains, envVars, storeVars, call, streak,
                      req, resp, hist, flightVars, client>>

NextWL ==
    \/ \E force \in BOOLEAN : RefreshCache(force)
    \/ \E client_ip \in RealIPs : IsWhitelisted(client_ip)
    \/ Tick
    \/ \E d \in {D1, D2}, answer \in Answers : DnsChange(d, answer)

SpecWL == InitWL /\ [][NextWL]_vars

\* C6: if the lookup of a domain with a non-empty cached set fails during a
\* refresh pass (TTL-triggered or forced), the cached set of that domain is
\* still the previous set after the pass: never emptied, never removed.
C6_FailedLookupKeepsCachedSet ==
    [][ \A d \in DOMAIN cache :
          (wl'.passes > 0 /\ cache[d] # {} /\ dns[d].err)
             => (d \in DOMAIN cache' /\ cache'[d] = cache[d]) ]_vars

-----------------------------------------------------------------------------
(* Claims about the endpoint *)

Handled == req # NoRequest

\* the request passed the whitelist step, was not blocked and carried a token
\* valid for its filename (a passed validation leaves no counter for the IP)
Authorized ==
    /\ Handled
    /\ domains = <<>> \/ req.client_ip \in CachedIPs(cache)
    /\ verify_access(req.token, req.file_name, tokens_map)
    /\ req.client_ip \notin DOMAIN failed_attempts

Local == parse_cert_filename(resp.local_cert)

Remote == parse_cert_filename(req.file_name)

ServesFile ==
    /\ resp.status_code = 200
    /\ resp.kind = "file"
    /\ resp.path = resp.local_cert

\* C1: a conditional check that passed the whitelist, block and token checks,
\* with parseable local and requested names that agree: equal timestamps give
\* 200 with JSON status "ok" and no file, a greater local timestamp gives the
\* artifact file with 200, a smaller one gives 400; for every requested
\* timestamp, negative ones included.
C1_ConditionalCheckByTimestamp ==
    ( /\ Authorized
      /\ ~req.download
      /\ resp.local_cert # NoFile
      /\ Local.ok /\ Remote.ok
      /\ Local.name = Remote.name )
    => /\ resp.local_cert \in find_local_cert_file(targets)
       /\ Local.timestamp = Remote.timestamp =>
             /\ resp.status_code = 200
             /\ resp.kind = "json"
             /\ resp.status = "ok"
             /\ resp.path = NoFile
       /\ Local.timestamp > Remote.timestamp => ServesFile
       /\ Local.timestamp < Remote.timestamp => resp.status_code = 400

\* a conditional check with a negative timestamp was answered with the file
C1_Witness ==
    /\ Authorized
    /\ ~req.download
    /\ req.file_name = F_a_m1
    /\ resp.local_cert = output_filename(0)
    /\ ServesFile

\* C2: for an authorized request with parseable local and requested names, a
\* forced download returns the artifact file with 200 exactly when the names
\* agree (whatever the timestamps) and 404 when they differ; a conditional
\* check with differing names is answered 400 whatever the timestamps.
C2_NameDecidesForcedDownload ==
    ( /\ Authorized
      /\ resp.local_cert # NoFile
      /\ Local.ok /\ Remote.ok )
    => /\ req.download => (ServesFile <=> Local.name = Remote.name)
       /\ (req.download /\ Local.name # Remote.name) => resp.status_code = 404
       /\ (~req.download /\ Local.name # Remote.name) => resp.status_code = 400

\* a forced download naming a newer timestamp than the artifact's got the file
C2_Witness ==
    /\ Authorized
    /\ req.download
    /\ req.file_name = F_a_300
    /\ resp.local_cert = output_filename(0)
    /\ ServesFile

\* C3: every request emits exactly one audit record, on every terminal branch.
C3_ExactlyOneAuditRecord == Handled => Len(resp.audit) = 1

\* C10: after authentication: no artifact gives 404; otherwise an unparseable
\* local filename gives 500; otherwise an unparseable requested filename gives
\* 400.
C10_LookupThenLocalThenRemote ==
    Authorized =>
       /\ resp.local_cert \in find_local_cert_file(targets)
       /\ resp.local_cert = NoFile => resp.status_code = 404
       /\ (resp.local_cert # NoFile /\ ~Local.ok) => resp.status_code = 500
       /\ (resp.local_cert # NoFile /\ Local.ok /\ ~Remote.ok) =>
             /\ resp.status_code = 400
             /\ resp.message = "Invalid filename format"

\* a malformed requested filename met a malformed local filename: 500
C10_Witness ==
    /\ Authorized
    /\ req.file_name = F_a_x
    /\ resp.local_cert = F_bk_zip
    /\ resp.status_code = 500

ResolvedIPs(answers) == UNION {answers[d].ips : d \in DOMAIN answers}

\* C7: with a non-empty domain whitelist, a client IP that is neither in a
\* cached IP set nor in a freshly resolved one is answered 403 whatever its
\* token, filename and the artifact state are, and its token is not looked at;
\* with no domain configured the step is skipped: no resolution pass, no
\* change to the cache, and no whitelist denial.
C7_WhitelistGate ==
    [][ req' # NoRequest =>
          /\ ( /\ domains # <<>>
               /\ req'.client_ip \notin CachedIPs(cache)
               /\ req'.client_ip \notin ResolvedIPs(dns) )
             => /\ resp'.status_code = 403
                /\ resp'.message = "Client IP not in whitelist"
                /\ resp'.validate_calls = 0
                /\ failed_attempts' = failed_attempts
          /\ domains = <<>>
             => /\ resp'.passes = 0
                /\ resp'.message # "Client IP not in whitelist"
                /\ cache' = cache
                /\ last_update' = last_update ]_vars

\* a request with a token valid for its filename, with an artifact in place,
\* was refused because its IP is in no resolved set
C7_Witness ==
    /\ Handled
    /\ domains # <<>>
    /\ req.client_ip \notin CachedIPs(cache)
    /\ verify_access(req.token, req.file_name, tokens_map)
    /\ find_local_cert_file(targets) = {output_filename(0)}
    /\ resp.status_code = 403
    /\ resp.message = "Client IP not in whitelist"

PassedWhitelist == domains = <<>> \/ req.client_ip \in CachedIPs(cache)

\* C8: a request that passed the whitelist step from an IP that is blocked at
\* that moment is answered 429 without its token being validated (the
\* counters stay as they were), also when the token is valid for the filename.
C8_BlockedBeforeValidation ==
    [][ ( /\ req' # NoRequest
          /\ PassedWhitelist'
          /\ is_blocked(failed_attempts, req'.client_ip) )
        => /\ resp'.status_code = 429
           /\ resp'.validate_calls = 0
           /\ failed_attempts' = failed_attempts ]_vars

\* a blocked IP sent a token valid for the filename and got 429
C8_Witness ==
    /\ Handled
    /\ PassedWhitelist
    /\ domains # <<>>
    /\ verify_access(req.token, req.file_name, tokens_map)
    /\ is_blocked(failed_attempts, req.client_ip)
    /\ resp.status_code = 429

\* the token is empty, is no configured token, or owns no pattern that the
\* filename matches
TokenRefused(token, filename) ==
    \/ token = <<>>
    \/ token \notin DOMAIN tokens_map
    \/ /\ token \in DOMAIN tokens_map
       /\ \A p \in Patterns(tokens_map, token) : ~GlobDenotes(filename, p)

\* C9: a request that passed the whitelist step from an IP that is not blocked,
\* with a token that is empty, unknown or not authorized for the filename, is
\* answered 403 before any artifact lookup or filename check: never 404, 500,
\* 400 or a file.
C9_TokenDenialIs403 ==
    [][ ( /\ req' # NoRequest
          /\ PassedWhitelist'
          /\ ~is_blocked(failed_attempts, req'.client_ip)
          /\ TokenRefused(req'.token, req'.file_name) )
        => /\ resp'.status_code = 403
           /\ resp'.kind = "json"
           /\ resp'.message = "Unauthorized access"
           /\ resp'.local_cert = NoFile ]_vars

\* an unknown token asked for a malformed filename while no artifact existed,
\* and got 403 rather than 404 or 400
C9_Witness ==
    /\ Handled
    /\ PassedWhitelist
    /\ domains # <<>>
    /\ req.token = TokUnknown
    /\ req.file_name = F_a_x
    /\ ~targets.exists
    /\ resp.status_code = 403
    /\ resp.message = "Unauthorized access"

-----------------------------------------------------------------------------
(* The outcome of a request as a function of the request and the state *)

\* the terminal outcomes of the handler: status code, kind of body, message
TerminalOutcomes ==
    { [status_code |-> 403, kind |-> "json", message |-> "Client IP not in whitelist"],
      [status_code |-> 429, kind |-> "json",
       message |-> "Too many failed authentication attempts"],
      [status_code |-> 403, kind |-> "json", message |-> "Unauthorized access"],
      [status_code |-> 404, kind |-> "json", message |-> "No certificate file available"],
      [status_code |-> 500, kind |-> "json", message |-> "Server configuration error"],
      [status_code |-> 400, kind |-> "json", message |-> "Invalid filename format"],
      [status_code |-> 200, kind |-> "file", message |-> "none"],
      [status_code |-> 404, kind |-> "json", message |-> "Certificate not found"],
      [status_code |-> 400, kind |-> "json", message |-> "Certificate name mismatch"],
      [status_code |-> 200, kind |-> "json", message |-> "Certificate is up to date"],
      [status_code |-> 400, kind |-> "json", message |-> "Invalid timestamp"] }

Outcome(out) ==
    [status_code |-> out.status_code, kind |-> out.kind, message |-> out.message]

\* the responses (with the file served) that the handler can give to a request
\* in the current state
PossibleResponses(client_ip, token, file_name, download) ==
    LET r == [client_ip |-> client_ip, token |-> token, file_name |-> file_name,
              download |-> download]
        w == whitelist_step(domains, cache, last_update, client_ip, now, dns)
        a == authenticate(r, failed_attempts, tokens_map)
        rp == parse_cert_filename(file_name)
    IN  { [outcome |-> Outcome(ans.out), path |-> ans.out.path] :
            ans \in { respond(r, w.result, failed_attempts, a, local_cert,
                              parse_cert_filename(local_cert), rp) :
                        local_cert \in find_local_cert_file(targets) } }

-----------------------------------------------------------------------------
(* downloader.py: CertificateDownloader.update against the server.  The      *)
(* downloader is configured with the hook's certificate name and a token     *)
(* that the server accepts for every file.  One step is one HTTP request of  *)
(* _download_certificate together with what update() does with the answer;   *)
(* the steps of one update() run are separated by the retry back-off.        *)

retries == 3

ClientIP == IP1

ClientToken == TokMaster

\* update(): the filename requested by a run that starts now
remote_filename(local_cert) ==
    IF local_cert = NoFile
    THEN cert_name \o <<"_">> \o IntToStr(now)
    ELSE RemoveZip(local_cert)

\* client errors are retried like server errors
DownloadResult_retries_client_errors(response, attempt) ==
    IF response.status_code = 200 /\ response.kind = "file" THEN "content"
    ELSE IF response.status_code = 200 THEN "none"
    ELSE IF attempt < retries - 1 THEN "retry"
    ELSE "none"

\* _download_certificate: a 200 answer carrying a file is the content; a 200
\* JSON answer and a 4xx answer end the run without content; any other
\* answer is retried until the attempts are used up
DownloadResult(response, attempt) ==
    IF response.status_code = 200 /\ response.kind = "file" THEN "content"
    ELSE IF response.status_code = 200 THEN "none"
    ELSE IF response.status_code >= 400 /\ response.status_code < 500 THEN "none"
    ELSE IF attempt < retries - 1 THEN "retry"
    ELSE "none"

\* update() after the request: the content is saved under the client's own
\* clock, f"{self.cert_name}_{int(time.time())}.zip", and the old file removed
ClientAfter(c, fname, response) ==
    LET outcome == DownloadResult(response, c.attempt)
    IN  IF outcome = "content"
        THEN [cache |-> cert_name \o <<"_">> \o IntToStr(now) \o ZIP,
              got |-> response.path, attempt |-> 0, remote_filename |-> NoFile,
              run |-> c.run]
        ELSE IF outcome = "retry"
        THEN [c EXCEPT !.attempt = @ + 1, !.remote_filename = fname]
        ELSE [c EXCEPT !.attempt = 0, !.remote_filename = NoFile]

\* one request of an update() run: the first of a run computes the filename,
\* a retry repeats it
ClientUpdate ==
    \E fname \in {IF client.attempt = 0 THEN remote_filename(client.cache)
                   ELSE client.remote_filename} :
       /\ get_certificate(ClientIP, ClientToken, fname, client.cache = NoFile)
       /\ client' = ClientAfter(client, fname, resp')

NextClient ==
    \/ ClientUpdate
    \/ Tick
    \/ PackageRmtree
    \/ PackageMkdir
    \/ PackageCreateZip
    \/ PackageCloseZip
    \/ \E f \in ForeignFiles : PlaceFile(f)

SpecClient == Init /\ [][NextClient]_vars

\* the server's current artifact, parsed
ServerArtifact == CHOOSE f \in find_local_cert_file(targets) : TRUE

Publishes(f) == f # NoFile /\ parse_cert_filename(f).ok

\* C12: a client with an empty cache that requests with download=true while
\* the server holds an artifact receives it; every later update() run, while
\* the server's artifact is still the one the client received, is answered
\* "up to date" (200, no file); once the server holds a newer artifact the
\* next update() run receives it (requests made while no packaging run is in
\* progress).
C12_ClientServerConverge ==
    [][ (req' # NoRequest /\ pkg = "idle") =>
          /\ ( /\ client.cache = NoFile
               /\ Publishes(ServerArtifact) )
             => client'.got = ServerArtifact
          /\ ( /\ client.cache # NoFile
               /\ ServerArtifact = client.got )
             => /\ resp'.status_code = 200
                /\ resp'.status = "ok"
                /\ resp'.kind = "json"
          /\ ( /\ client.cache # NoFile
               /\ Publishes(ServerArtifact)
               /\ parse_cert_filename(ServerArtifact).timestamp
                     > parse_cert_filename(client.got).timestamp )
             => client'.got = ServerArtifact ]_vars

-----------------------------------------------------------------------------
(* Repetition of a conditional check *)

UpToDate(response) ==
    /\ response.status_code = 200
    /\ response.kind = "json"
    /\ response.status = "ok"
    /\ response.message = "Certificate is up to date"

\* C13 as stated: a conditional check that was answered "up to date" and is
\* repeated (same client IP, token and filename) while the artifact and the
\* resolver's answers are unchanged is answered "up to date" again, and the
\* repetition changes neither the failed-attempt counters nor the artifact.
C13_RepeatedCheckSameAnswer ==
    [][ (req' # NoRequest /\ resp'.repeat)
        => /\ UpToDate(resp')
           /\ failed_attempts' = failed_attempts
           /\ targets' = targets ]_vars

\* C13 amended: the same, provided that no whitelist domain is configured, or
\* the whitelist cache that admitted the earlier check has not reached its
\* TTL, or the resolver's current answers contain the client IP.
C13_RepeatedCheckSameAnswerWhileAdmitted ==
    [][ ( /\ req' # NoRequest
          /\ resp'.repeat
          /\ \/ domains = <<>>
             \/ is_cache_valid(last_update, now)
             \/ req'.client_ip \in ResolvedIPs(dns) )
        => /\ UpToDate(resp')
           /\ failed_attempts' = failed_attempts
           /\ targets' = targets ]_vars

\* a check was repeated after the whitelist cache had expired, a resolution
\* pass ran, and the answer was "up to date" again
C13_Witness ==
    /\ Handled
    /\ resp.repeat
    /\ domains # <<>>
    /\ resp.passes > 0
    /\ UpToDate(resp)

-----------------------------------------------------------------------------
(* whitelist.py: concurrent callers of one WhitelistManager on the event     *)
(* loop.  A coroutine runs without interruption from one await that suspends *)
(* to the next: refresh_cache suspends when it has to wait for the lock and  *)
(* while the executor resolves the domains (asyncio.gather).  A step of the  *)
(* model is one such uninterrupted run.  F is the manager as a record:       *)
(* tasks, lock, cache, last_update.                                          *)

Flight == [tasks |-> tasks, lock |-> lock, cache |-> cache, last_update |-> last_update]

\* asyncio.Lock.release: the first waiter, if any, is the next to hold the lock
\* (callers arriving before it resumes queue behind the remaining waiters)
release(F) ==
    IF F.lock.waiters = <<>>
    THEN [F EXCEPT !.lock.holder = ""]
    ELSE [F EXCEPT !.lock.holder = Head(F.lock.waiters),
                   !.lock.waiters = Tail(F.lock.waiters)]

\* lines 113-122: the pass begins; the coroutine suspends in asyncio.gather
start_pass(F, t) ==
    [F EXCEPT !.tasks[t].pc = "resolving",
              !.tasks[t].passes = @ + 1,
              !.tasks[t].forced = @ + (IF F.tasks[t].force THEN 1 ELSE 0)]

\* a forced caller does not go through the lock
acquire_forced_unlocked(F, t, force) ==
    IF F.lock.holder = "" \/ force
    THEN start_pass([F EXCEPT !.lock.holder = t,
                              !.tasks[t].force = force,
                              !.tasks[t].waited = FALSE], t)
    ELSE [F EXCEPT !.lock.waiters = Append(@, t),
                   !.tasks[t].pc = "waiting",
                   !.tasks[t].force = force,
                   !.tasks[t].waited = FALSE]

\* "async with self._lock" (line 108) of a refresh_cache(force) invocation
\* that got past the first validity test: a free lock is taken at once and the
\* second test (line 110) has the outcome of the first, so the pass begins;
\* otherwise the caller queues.  waited is history: whether another caller's
\* pass completed while this invocation was queued.
acquire(F, t, force) ==
    IF F.lock.holder = ""
    THEN start_pass([F EXCEPT !.lock.holder = t,
                              !.tasks[t].force = force,
                              !.tasks[t].waited = FALSE], t)
    ELSE [F EXCEPT !.lock.waiters = Append(@, t),
                   !.tasks[t].pc = "waiting",
                   !.tasks[t].force = force,
                   !.tasks[t].waited = FALSE]

\* the call ends: is_whitelisted answers by membership in the cached sets
done(F, t) ==
    [F EXCEPT !.tasks[t].pc = "idle",
              !.tasks[t].result =
                  IF F.tasks[t].op = "is_whitelisted"
                  THEN F.tasks[t].client_ip \in CachedIPs(F.cache)
                  ELSE TRUE]

\* a miss after the first refresh is answered without the forced refresh
returned_no_forced(F, t) == done(F, t)

\* a refresh_cache invocation of task t has returned.  In is_whitelisted after
\* the first refresh (stage 1, lines 176-182) a miss goes on to
\* refresh_cache(force=True) without suspending in between; otherwise the
\* call ends.
returned(F, t) ==
    IF /\ F.tasks[t].op = "is_whitelisted"
       /\ F.tasks[t].stage = 1
       /\ F.tasks[t].client_ip \notin CachedIPs(F.cache)
    THEN acquire([F EXCEPT !.tasks[t].stage = 2], t, TRUE)
    ELSE done(F, t)

\* the validity test is skipped: every invocation goes for the lock
enter_always_refreshes(F, t, force) == acquire(F, t, force)

\* refresh_cache(force), lines 105-108
enter(F, t, force) ==
    IF ~force /\ is_cache_valid(F.last_update, now)
    THEN returned([F EXCEPT !.tasks[t].force = force,
                            !.tasks[t].waited = FALSE], t)
    ELSE acquire(F, t, force)

\* a waiter resumes holding the lock, lines 110-111: a caller that is not
\* forced and finds the cache valid leaves, any other begins a pass
resume(F, t) ==
    IF ~F.tasks[t].force /\ is_cache_valid(F.last_update, now)
    THEN returned(release(F), t)
    ELSE start_pass(F, t)

\* a pass in which a lookup failed ends with the exception: the cache is not
\* replaced, the caller's call is over, and the lock is not released
finish_pass_error_keeps_lock(F, t, answers) ==
    IF \E d \in DOMAIN answers : answers[d].err
    THEN done(F, t)
    ELSE returned(release([F EXCEPT !.cache = new_cache(F.cache, domains, answers),
                                    !.last_update = <<now>>,
                                    !.tasks = [u \in Tasks |->
                                                 IF F.tasks[u].pc = "waiting"
                                                 THEN [F.tasks[u] EXCEPT !.waited = TRUE]
                                                 ELSE F.tasks[u]]]), t)

\* gather has returned, lines 124-134, and the lock is released
finish_pass(F, t, answers) ==
    returned(release([F EXCEPT !.cache = new_cache(F.cache, domains, answers),
                               !.last_update = <<now>>,
                               !.tasks = [u \in Tasks |->
                                            IF F.tasks[u].pc = "waiting"
                                            THEN [F.tasks[u] EXCEPT !.waited = TRUE]
                                            ELSE F.tasks[u]]]), t)

Becomes(F) ==
    /\ tasks' = F.tasks
    /\ lock' = F.lock
    /\ cache' = F.cache
    /\ last_update' = F.last_update
    /\ UNCHANGED <<validatorVars, domains, envVars, storeVars, call, streak, wl,
                   req, resp, hist, client, access, settings>>

NewCall(op, client_ip) ==
    [IdleTask EXCEPT !.pc = "running", !.op = op, !.client_ip = client_ip,
                     !.stage = IF op = "is_whitelisted" THEN 1 ELSE 0]

\* task t calls manager.refresh_cache(force)
CallRefreshCache(t, force) ==
    /\ tasks[t].pc = "idle"
    /\ \E F \in {enter([Flight EXCEPT !.tasks[t] = NewCall("refresh_cache", "")],
                        t, force)} : Becomes(F)

\* task t calls manager.is_whitelisted(client_ip)
CallIsWhitelisted(t, client_ip) ==
    /\ tasks[t].pc = "idle"
    /\ \E F \in {enter([Flight EXCEPT !.tasks[t] = NewCall("is_whitelisted", client_ip)],
                        t, FALSE)} : Becomes(F)

\* the waiter that was handed the lock resumes
Resume(t) ==
    /\ tasks[t].pc = "waiting"
    /\ lock.holder = t
    /\ \E F \in {resume(Flight, t)} : Becomes(F)

\* the resolution of task t's pass completes with the resolver's answers
FinishPass(t) ==
    /\ tasks[t].pc = "resolving"
    /\ \E F \in {finish_pass(Flight, t, dns)} : Becomes(F)

\* the cache ages by one TTL between passes (a pass takes less than a TTL)
TickIdle == lock.holder = "" /\ Tick

FlightIPs == {IP1}

NextFlight ==
    \/ \E t \in Tasks, force \in BOOLEAN : CallRefreshCache(t, force)
    \/ \E t \in Tasks, client_ip \in FlightIPs : CallIsWhitelisted(t, client_ip)
    \/ \E t \in Tasks : Resume(t)
    \/ \E t \in Tasks : FinishPass(t)
    \/ TickIdle
    \/ \E answer \in Answers : DnsChange(D1, answer)

InitFlight == ServerInit(<<D1>>, NoTargets)

SpecFlight == InitFlight /\ [][NextFlight]_vars

Resolving == {t \in Tasks : tasks[t].pc = "resolving"}

\* C14: for any number of concurrent is_whitelisted and refresh_cache callers,
\* forced or not, at most one resolution pass is in progress at any time, and
\* it is the pass of the caller holding the lock.
C14_OnePassAtATime ==
    /\ Cardinality(Resolving) <= 1
    /\ \A t \in Resolving : lock.holder = t

\* one pass is in progress while two other callers, one of them forced, wait
C14_Witness ==
    /\ Cardinality(Resolving) = 1
    /\ Len(lock.waiters) = 2
    /\ \E t \in Tasks : tasks[t].pc = "waiting" /\ tasks[t].force
    /\ \E t \in Tasks : tasks[t].pc = "waiting" /\ ~tasks[t].force

\* C15: a refresh_cache invocation that was waiting on the lock when another
\* caller's pass completed starts no pass of its own when it obtains the
\* lock, whether it is a non-forced invocation or the forced one that
\* is_whitelisted issues on a miss (a direct refresh_cache(force=True) call is
\* not concerned).
C15_WaitersStartNoPass ==
    \A t \in Tasks :
       (tasks[t].pc = "resolving" /\ tasks[t].waited)
          => (tasks[t].op = "refresh_cache" /\ tasks[t].force)

\* task t makes a call in this step (it may also complete it in the step)
Calls(t, op) ==
    /\ tasks[t].pc = "idle"
    /\ tasks'[t] # tasks[t]
    /\ tasks'[t].op = op

\* task t's call ends in this step
Completes(t, op) ==
    /\ tasks'[t].pc = "idle"
    /\ tasks'[t] # tasks[t]
    /\ tasks'[t].op = op

\* C16: is_whitelisted(ip) returns false only when a forced refresh of that
\* call has just completed and ip is in no IP set of the refreshed cache; a
\* call issues at most one forced refresh and at most two passes in all; the
\* forced refresh is issued only on a miss, so a call that finds ip in the
\* cache after its first refresh issues none.
C16_FalseOnlyAfterForcedRefresh ==
    [][ \A t \in Tasks :
          /\ (Completes(t, "is_whitelisted") /\ ~tasks'[t].result)
             => /\ tasks[t].pc = "resolving"
                /\ tasks[t].force
                /\ tasks'[t].forced = 1
                /\ last_update' = <<now>>
                /\ tasks'[t].client_ip \notin CachedIPs(cache')
          /\ tasks'[t].op = "is_whitelisted"
             => /\ tasks'[t].forced <= 1
                /\ tasks'[t].passes <= 2
                /\ tasks'[t].forced = 1 => tasks'[t].stage = 2
          /\ (tasks'[t].op = "is_whitelisted" /\ tasks'[t].stage = 2
                /\ (tasks[t].op # "is_whitelisted" \/ tasks[t].stage # 2))
             => tasks'[t].client_ip \notin CachedIPs(cache')
          /\ (Completes(t, "is_whitelisted") /\ tasks'[t].stage = 1)
             => /\ tasks'[t].result
                /\ tasks'[t].forced = 0 ]_vars

\* a call made with a stale cache ran a TTL-triggered pass, missed, ran its
\* forced pass and answered false
C16_Witness ==
    \E t \in Tasks :
       /\ tasks[t].pc = "idle"
       /\ tasks[t].op = "is_whitelisted"
       /\ tasks[t].passes = 2
       /\ tasks[t].forced = 1
       /\ ~tasks[t].result
       /\ tasks[t].client_ip \notin CachedIPs(cache)

\* C18: refresh_cache(force=False) called while the cache age is below the
\* TTL resolves nothing, does not touch the lock and leaves the cached sets
\* and the last-update time as they are; an is_whitelisted call within the TTL
\* for an IP present in the cache returns true in the same way, whatever the
\* resolver would answer now.
C18_ValidCacheIsNotRefreshed ==
    [][ \A t \in Tasks :
          /\ ( /\ Calls(t, "refresh_cache")
               /\ ~tasks'[t].force
               /\ is_cache_valid(last_update, now) )
             => /\ tasks'[t].pc = "idle"
                /\ tasks'[t].passes = 0
                /\ ~tasks'[t].waited
                /\ lock' = lock
                /\ cache' = cache
                /\ last_update' = last_update
          /\ ( /\ Calls(t, "is_whitelisted")
               /\ is_cache_valid(last_update, now)
               /\ tasks'[t].client_ip \in CachedIPs(cache) )
             => /\ tasks'[t].pc = "idle"
                /\ tasks'[t].result
                /\ tasks'[t].passes = 0
                /\ ~tasks'[t].waited
                /\ lock' = lock
                /\ cache' = cache
                /\ last_update' = last_update ]_vars

\* within the TTL an is_whitelisted call was answered true from the cache,
\* without a pass and without waiting, for an IP that the resolver no longer
\* returns, while another caller's forced pass held the lock
C18_Witness ==
    \E t \in Tasks :
       /\ tasks[t].pc = "idle"
       /\ tasks[t].op = "is_whitelisted"
       /\ tasks[t].result
       /\ tasks[t].passes = 0
       /\ ~tasks[t].waited
       /\ is_cache_valid(last_update, now)
       /\ tasks[t].client_ip \in CachedIPs(cache)
       /\ tasks[t].client_ip \notin ResolvedIPs(dns)
       /\ lock.holder # ""

-----------------------------------------------------------------------------
(* Freshness of the whitelist after a pass *)

\* the cache has never been filled or its age has reached the TTL
CacheAgedOut == last_update = <<>> \/ now - last_update[1] >= cache_ttl_seconds

\* C17: after a refresh pass in which a domain resolves successfully to S, the
\* cached set of the domain is exactly S, and is_whitelisted answers by the
\* cached sets: an IP of a previous set that no domain resolves to any more is
\* rejected and every IP of S is accepted.  An is_whitelisted call made when
\* the cache age is at least the TTL completes a pass before it answers.
C17_PassReplacesResolvedSets ==
    [][ /\ wl'.passes > 0
           => \A d \in Range(domains) :
                 ~dns[d].err => (d \in DOMAIN cache' /\ cache'[d] = dns[d].ips)
        /\ wl'.op = "is_whitelisted"
           => /\ wl'.result <=> wl'.client_ip \in CachedIPs(cache')
              /\ CacheAgedOut => (wl'.passes >= 1 /\ last_update' = <<now>>)
        /\ (wl'.op = "is_whitelisted" /\ wl'.passes > 0)
           => \A d \in Range(domains) :
                 (~dns[d].err /\ wl'.client_ip \in dns[d].ips) => wl'.result ]_vars

\* at an age of one TTL an is_whitelisted call ran a pass in which both
\* domains resolved to sets without the IP, ran its forced pass and rejected it
C17_Witness ==
    /\ wl.op = "is_whitelisted"
    /\ ~wl.result
    /\ wl.passes = 2
    /\ now = cache_ttl_seconds
    /\ last_update = <<now>>
    /\ \A d \in Range(domains) :
          ~dns[d].err /\ cache[d] = dns[d].ips /\ wl.client_ip \notin cache[d]

-----------------------------------------------------------------------------
(* auth.py: concurrent validate calls on one TokenValidator, each running in *)
(* a thread of its own.  The class holds no lock.  dict.pop and dict.get are *)
(* single operations; the statement at lines 125-127 reads the counter with  *)
(* get() and stores the sum in a separate operation, and another thread can  *)
(* run between the two.                                                      *)

AllIdle == \A t \in Tasks : tasks[t].pc = "idle"

\* failed validations of one IP explored between two successes
MaxRaceCalls == 3

RaceTasks == {"t1", "t2"}

InProgress(client_ip) ==
    Cardinality({t \in Tasks : tasks[t].pc = "read" /\ tasks[t].client_ip = client_ip})

\* validate(), lines 117-126: verify_access, then the success branch, or the
\* read of the counter in the failure branch
ValidateBegin(t, token, filename, client_ip) ==
    \E is_valid \in {verify_access(token, filename, tokens_map)} :
       /\ tasks[t].pc = "idle"
       /\ (client_ip \in RealIPs /\ ~is_valid)
             => streak[client_ip] + InProgress(client_ip) < MaxRaceCalls
       /\ IF client_ip = ""
          THEN UNCHANGED <<failed_attempts, streak, tasks>>
          ELSE IF is_valid
          THEN /\ failed_attempts' = Pop(failed_attempts, client_ip)
               /\ streak' = [streak EXCEPT ![client_ip] = 0]
               /\ UNCHANGED tasks
          ELSE /\ tasks' = [tasks EXCEPT ![t] =
                               [IdleTask EXCEPT !.pc = "read", !.op = "validate",
                                   !.client_ip = client_ip,
                                   !.read = Get(failed_attempts, client_ip, 0)]]
               /\ UNCHANGED <<failed_attempts, streak>>
       /\ UNCHANGED <<tokens_map, call, whitelistVars, envVars, storeVars, wl, req,
                      resp, hist, lock, client, access, settings>>

\* validate(), lines 125-127: the store of the value read plus one; the
\* failed validation is complete
ValidateStore(t) ==
    /\ tasks[t].pc = "read"
    /\ failed_attempts' = Put(failed_attempts, tasks[t].client_ip, tasks[t].read + 1)
    /\ streak' = [streak EXCEPT ![tasks[t].client_ip] = @ + 1]
    /\ tasks' = [tasks EXCEPT ![t] = IdleTask]
    /\ UNCHANGED <<tokens_map, call, whitelistVars, envVars, storeVars, wl, req,
                   resp, hist, lock, client, access, settings>>

\* failing validations run concurrently; a successful one runs while no other
\* call is in progress
NextRace ==
    \/ \E t \in RaceTasks, token \in ProvidedTokens, filename \in {F_a_0, F_b_0},
          client_ip \in CallIPs :
          /\ verify_access(token, filename, tokens_map) => AllIdle
          /\ ValidateBegin(t, token, filename, client_ip)
    \/ \E t \in RaceTasks : ValidateStore(t)

SpecRace == InitAuth /\ [][NextRace]_vars

\* C19: whatever the interleaving of concurrent validate calls for an IP, no
\* update is lost: once the calls have completed, the counter of the IP equals
\* the number of failed validations since the last success or reset.
C19_NoLostCounterUpdate ==
    AllIdle => \A ip \in RealIPs : Get(failed_attempts, ip, 0) = streak[ip]

-----------------------------------------------------------------------------
(* auth.py: which counters a validate or reset_attempts call touches         *)

\* the three denials: empty token, unknown token, known token none of whose
\* patterns matches the file name
Denial(token, filename) ==
    \/ token = <<>>
    \/ token \notin DOMAIN tokens_map
    \/ \A i \in 1..Len(tokens_map[token]) : ~fnmatch(filename, tokens_map[token][i])

OthersUnchanged(client_ip) ==
    /\ DOMAIN failed_attempts' \subseteq DOMAIN failed_attempts \cup {client_ip}
    /\ \A other \in DOMAIN failed_attempts \ {client_ip} :
          /\ other \in DOMAIN failed_attempts'
          /\ failed_attempts'[other] = failed_attempts[other]

\* C20: validate(token, filename, ip) changes only the counter of ip: a denial
\* (empty token, unknown token, known token without a matching pattern) raises
\* it by exactly 1 and a success removes it; without a client IP no counter
\* changes; reset_attempts(ip) removes the counter of ip, blocked or not, and
\* no call changes the counter of another IP.
C20_OnlyTheCallersCounterChanges ==
    [][ /\ \A token \in ProvidedTokens, filename \in AuthFiles, client_ip \in CallIPs :
             Validate(token, filename, client_ip)
                => IF client_ip = ""
                   THEN failed_attempts' = failed_attempts
                   ELSE /\ OthersUnchanged(client_ip)
                        /\ IF Denial(token, filename)
                           THEN /\ client_ip \in DOMAIN failed_attempts'
                                /\ failed_attempts'[client_ip]
                                      = Get(failed_attempts, client_ip, 0) + 1
                           ELSE client_ip \notin DOMAIN failed_attempts'
        /\ \A client_ip \in RealIPs :
             ResetAttempts(client_ip)
                => /\ client_ip \notin DOMAIN failed_attempts'
                   /\ OthersUnchanged(client_ip) ]_vars

\* after denials one IP is over the blocking threshold and the other IP, whose
\* counter a success or a reset removed after its own denials, has none
C20_Witness ==
    /\ call.made
    /\ IP1 \notin DOMAIN failed_attempts
    /\ IP2 \in DOMAIN failed_attempts
    /\ failed_attempts[IP2] >= max_failed_attempts
    /\ streak[IP1] = 0 /\ streak[IP2] = failed_attempts[IP2]

-----------------------------------------------------------------------------
(* certbot_hook.py: packaging runs over a directory that holds an artifact,  *)
(* with requests handled between the steps of a run.                         *)

ArtifactA == output_filename(0)

InitReplace ==
    ServerInit(<<>>, WriteFile([NoTargets EXCEPT !.exists = TRUE], ArtifactA, 0, 1))

NextReplace ==
    \/ Requests
    \/ Tick
    \/ PackageRmtree
    \/ PackageMkdir
    \/ PackageCreateZip
    \/ PackageCloseZip

SpecReplace == InitReplace /\ [][NextReplace]_vars

\* C21: at every point of a packaging run that replaces artifact A by artifact
\* B, the handler's locate step finds a complete artifact: the target
\* directory is never missing or without an artifact, and the file found is
\* never one whose content is still being written.
C21_LocateFindsCompleteArtifact ==
    /\ targets.exists
    /\ \A local_cert \in find_local_cert_file(targets) :
          local_cert # NoFile /\ local_cert \notin Writing

-----------------------------------------------------------------------------
(* routes.py: the audit record of a token denial *)

\* why a token is refused for a filename: it equals no configured token, or it
\* is configured and none of its patterns matches the filename
DenialCause(token, filename) ==
    IF token \notin DOMAIN tokens_map THEN "invalid_token"
    ELSE IF \A p \in Patterns(tokens_map, token) : ~GlobDenotes(filename, p)
    THEN "unauthorized_resource"
    ELSE "none"

\* the reason in the audit record of the token denial of a request
DenialReason(token, filename) ==
    authenticate([req EXCEPT !.token = token, !.file_name = filename],
                 EmptyDict, tokens_map).out.audit[1].reason

\* C22: the audit record of a token denial tells the cause: the reason recorded
\* when the token equals no configured token differs from the reason recorded
\* when the token is configured and none of its patterns matches the filename
\* (both answered with the same status code).
C22_DenialReasonTellsCause ==
    ( /\ Handled
      /\ resp.status_code = 403
      /\ resp.message = "Unauthorized access" )
    => \A token \in RequestTokens, filename \in RequestFiles :
          DenialCause(token, filename)
                \notin {"none", DenialCause(req.token, req.file_name)}
             => DenialReason(token, filename) # resp.audit[1].reason

-----------------------------------------------------------------------------
(* routes.py: get_certificate taken apart at its accesses to the targets     *)
(* directory, with a packaging run removing and recreating the directory     *)
(* between them.  access.raised records that an exception left the handler.  *)

\* get_certificate up to the listing of _find_local_cert_file (lines 175-111):
\* a request refused before the lookup, or finding no .zip file, is answered
\* at once; with one .zip file that file is the one found; with several the
\* handler goes on to stat them
AccessList(client_ip, token, file_name, download) ==
    \E r \in {[client_ip |-> client_ip, token |-> token, file_name |-> file_name,
                download |-> download]} :
    \E w \in {whitelist_step(domains, cache, last_update, client_ip, now, dns)} :
    \E a \in {authenticate(r, failed_attempts, tokens_map)} :
    \E zip_files \in {SelectSeq(targets.order, IsZip)} :
       /\ access.pc = "idle"
       /\ IF ~w.result \/ ~a.pass \/ ~targets.exists \/ zip_files = <<>>
          THEN get_certificate(client_ip, token, file_name, download)
          ELSE /\ access' = [pc |-> IF Len(zip_files) > 1 THEN "listed" ELSE "located",
                             r |-> r, zip_files |-> zip_files,
                             local_cert |-> IF Len(zip_files) > 1 THEN NoFile
                                            ELSE zip_files[1],
                             raised |-> FALSE]
               /\ req' = r
               /\ resp' = NoResponse
               /\ wl' = NoWl
               /\ hist' = NoRequest
               /\ failed_attempts' = a.failed_attempts
               /\ cache' = w.cache
               /\ last_update' = w.last_update
               /\ UNCHANGED <<tokens_map, domains, envVars, storeVars, call, streak,
                              tasks, lock, settings>>
       /\ UNCHANGED client

\* _find_local_cert_file, line 117: max(zip_files, key=lambda f: f.stat().st_mtime)
\* stats every listed file; the stat of a file that is gone raises
\* FileNotFoundError, which nothing in the handler catches
AccessStat ==
    /\ access.pc = "listed"
    /\ IF \E f \in Range(access.zip_files) : f \notin DOMAIN targets.files
       THEN access' = [NoAccess EXCEPT !.raised = TRUE]
       ELSE \E local_cert \in find_local_cert_file(
                    [exists |-> TRUE, files |-> targets.files,
                     order |-> access.zip_files]) :
               access' = [access EXCEPT !.pc = "located", !.local_cert = local_cert]
    /\ UNCHANGED <<validatorVars, whitelistVars, envVars, storeVars, call, streak, wl,
                   req, resp, hist, tasks, lock, client, settings>>

\* get_certificate, lines 231-325: the name of the file found is parsed and
\* the response is built from the two names; the handler does not touch the
\* file itself
AccessRespond ==
    \E out \in {deliver(access.r, access.local_cert,
                         parse_cert_filename(access.local_cert),
                         parse_cert_filename(access.r.file_name))} :
       /\ access.pc = "located"
       /\ access' = NoAccess
       /\ resp' = [status_code |-> out.status_code, kind |-> out.kind,
                   status |-> out.status, message |-> out.message,
                   path |-> out.path, audit |-> out.audit,
                   local_cert |-> access.local_cert,
                   validate_calls |-> 1, passes |-> 0, repeat |-> FALSE]
       /\ UNCHANGED <<validatorVars, whitelistVars, envVars, storeVars, call, streak,
                      wl, req, hist, tasks, lock, client, settings>>

InitAccess == \E store \in Stores : ServerInit(<<>>, store)

NextAccess ==
    \/ \E client_ip \in RequestIPs, token \in {TokMaster, TokUnknown},
          file_name \in RequestFiles, download \in BOOLEAN :
          AccessList(client_ip, token, file_name, download)
    \/ AccessStat
    \/ AccessRespond
    \/ PackageRmtree
    \/ PackageMkdir
    \/ PackageCreateZip
    \/ PackageCloseZip

SpecAccess == InitAccess /\ [][NextAccess]_vars

\* C23: no failure inside the handler escapes as an uncaught exception; in
\* particular when the artifact file found in the target directory is removed
\* before the handler stats it, parses its name or reads it, the request ends
\* with an error response.
C23_NoUncaughtFailure == ~access.raised

-----------------------------------------------------------------------------
(* routes.py: _log_audit writing to a sink that may fail.  The record goes   *)
(* through logger.info to the StreamHandler and FileHandler that             *)
(* setup_logging installs; a handler whose write fails reports the error     *)
(* itself (logging.Handler.handleError) and logger.info returns.             *)

\* the record is lost and the exception of the write reaches get_certificate,
\* which has no try/except around _log_audit
log_audit_raises(records, sink_ok) ==
    [written |-> IF sink_ok THEN records ELSE <<>>, raised |-> ~sink_ok]

\* _log_audit, line 149: what reaches the sink, and whether the call raises
log_audit(records, sink_ok) ==
    [written |-> IF sink_ok THEN records ELSE <<>>, raised |-> FALSE]

\* get_certificate with the audit sink working or failing
get_certificate_sink(client_ip, token, file_name, download, sink_ok) ==
    \E r \in {[client_ip |-> client_ip, token |-> token, file_name |-> file_name,
                download |-> download]} :
    \E w \in {whitelist_step(domains, cache, last_update, client_ip, now, dns)} :
    \E a \in {authenticate(r, failed_attempts, tokens_map)} :
    \E local_cert \in find_local_cert_file(targets) :
    \E ans \in {respond(r, w.result, failed_attempts, a, local_cert,
                         parse_cert_filename(local_cert), parse_cert_filename(file_name))} :
    \E e \in {log_audit(ans.out.audit, sink_ok)} :
       /\ req' = r
       /\ resp' = IF e.raised
                  THEN [NoResponse EXCEPT !.status_code = 500, !.kind = "raised"]
                  ELSE [status_code |-> ans.out.status_code, kind |-> ans.out.kind,
                        status |-> ans.out.status, message |-> ans.out.message,
                        path |-> ans.out.path, audit |-> e.written,
                        local_cert |-> ans.local_cert,
                        validate_calls |-> ans.validate_calls, passes |-> w.passes,
                        repeat |-> FALSE]
       /\ failed_attempts' = ans.failed_attempts
       /\ cache' = w.cache
       /\ last_update' = w.last_update
       /\ hist' = NoRequest
       /\ UNCHANGED <<tokens_map, domains, envVars, storeVars, call, streak, wl,
                      flightVars, client>>

NextAudit ==
    \/ \E client_ip \in RequestIPs, token \in RequestTokens,
          file_name \in RequestFiles, download \in BOOLEAN, sink_ok \in BOOLEAN :
          get_certificate_sink(client_ip, token, file_name, download, sink_ok)
    \/ PackageRmtree
    \/ PackageMkdir
    \/ PackageCreateZip
    \/ PackageCloseZip

SpecAudit == Init /\ [][NextAudit]_vars

-----------------------------------------------------------------------------
(* downloader.py: one update() run of the client, step by step, against a    *)
(* server and network that may answer anything.                              *)

backoff_factor == 2

\* what a request can come back with: a 200 answer carrying an archive (with
\* certificate files, without any, or not a zip file), a 200 JSON answer,
\* client errors, a server error, a redirect, or a network error
\* (httpx.RequestError, status_code 0)
DownloadAnswers ==
    { [status_code |-> 200, kind |-> "file", archive |-> a] :
         a \in {"good", "no_files", "bad"} }
    \cup { [status_code |-> c, kind |-> "json", archive |-> "none"] :
             c \in {200, 302, 403, 404, 500} }
    \cup { [status_code |-> 0, kind |-> "error", archive |-> "none"] }

Log(run, event) == [run EXCEPT !.log = Append(@, event)]

Return(run, result) == [run EXCEPT !.pc = "idle", !.result = result]

\* update() returns True whenever the installation succeeded
update_result_needs_reload(installed, reload_ok) ==
    IF installed /\ reload_ok THEN "True" ELSE "False"

\* update(), lines 346-355: the value returned after _install_certificate
update_result(installed, reload_ok) ==
    IF installed THEN "True" ELSE "False"

\* lines 139-189 for one pass of the loop: the request of this attempt came
\* back with answer; content that was received is written to the cache
\* directory and the file cached before is removed (update(), lines 330-341)
download_attempt(run, answer) ==
    LET attempt == Len(run.answers)
        outcome == DownloadResult(answer, attempt)
        sent == [run EXCEPT !.answers = Append(@, answer)]
    IN  IF outcome = "content"
        THEN [sent EXCEPT !.pc = "saved", !.archive = answer.archive,
                          !.cached = "downloaded"]
        ELSE IF outcome = "retry"
        THEN [sent EXCEPT !.sleeps = Append(@, backoff_factor ^ attempt)]
        ELSE Return(sent, "False")

\* _install_certificate, lines 213-221: the archive is extracted to tmp_dir
extract(run) ==
    IF run.archive = "bad" THEN Return(run, "False")
    ELSE [Log(run, "extract") EXCEPT !.pc = "extracted"]

\* lines 223-229: an existing destination is moved to the backup path
backup(run, ok) ==
    IF run.dest = "absent" THEN [run EXCEPT !.pc = "backed"]
    ELSE IF ~ok THEN Return(run, "False")
    ELSE [Log(run, "backup") EXCEPT !.pc = "backed", !.bak = run.dest,
                                    !.dest = "absent"]

\* lines 231-250: the destination is created and the certificate files of the
\* archive are copied into it; ok is whether every copy succeeds
install(run, ok) ==
    IF run.archive = "no_files"
    THEN Return([run EXCEPT !.dest = "empty"], "False")
    ELSE IF ~ok
    THEN Return([Log(run, "write") EXCEPT !.dest = "partial"], "False")
    ELSE [Log(run, "write") EXCEPT !.dest = "files", !.installed = TRUE,
                                   !.pc = "installed"]

\* update(), lines 350-355, and _run_post_update_command
reload(run, ok) ==
    LET ran == IF run.command = "" THEN run
               ELSE [Log(run, "reload") EXCEPT !.reload_ok = ok]
    IN  Return(ran, update_result(ran.installed, ran.reload_ok))

RunBecomes(run) ==
    /\ client' = [client EXCEPT !.run = run]
    /\ UNCHANGED <<validatorVars, whitelistVars, envVars, storeVars, call, streak, wl,
                   req, resp, hist, flightVars>>

\* update() is started, with or without a post-update command configured
UpdateStart(command) ==
    /\ client.run.pc = "idle"
    /\ RunBecomes([NoRun EXCEPT !.pc = "download", !.command = command,
                                !.dest = client.run.dest, !.bak = client.run.bak,
                                !.had_dest = client.run.dest # "absent",
                                !.dest0 = client.run.dest,
                                !.cached = IF client.run.cached = "none" THEN "none"
                                           ELSE "previous"])

DownloadAttempt(answer) ==
    /\ client.run.pc = "download"
    /\ RunBecomes(download_attempt(client.run, answer))

Extract ==
    /\ client.run.pc = "saved"
    /\ RunBecomes(extract(client.run))

Backup(ok) ==
    /\ client.run.pc = "extracted"
    /\ RunBecomes(backup(client.run, ok))

Install(ok) ==
    /\ client.run.pc = "backed"
    /\ RunBecomes(install(client.run, ok))

Reload(ok) ==
    /\ client.run.pc = "installed"
    /\ RunBecomes(reload(client.run, ok))

NextUpdate ==
    \/ \E command \in {"", "reload"} : UpdateStart(command)
    \/ \E answer \in DownloadAnswers : DownloadAttempt(answer)
    \/ Extract
    \/ \E ok \in BOOLEAN : Backup(ok)
    \/ \E ok \in BOOLEAN : Install(ok)
    \/ \E ok \in BOOLEAN : Reload(ok)

SpecUpdate == Init /\ [][NextUpdate]_vars

Ends(answer) ==
    \/ answer.status_code = 200
    \/ answer.status_code >= 400 /\ answer.status_code < 500

\* C25: one download call sends at most 3 requests and terminates: it returns
\* at the first 200 or 4xx answer, sends a further request only after a
\* network error or another answer, waits 1 second and then 2 seconds between
\* attempts, and does not wait after the last attempt.
C25_AtMostThreeRequestsWithBackoff ==
    LET answers == client.run.answers
        n == Len(answers)
        downloading == client.run.pc = "download"
    IN  /\ n <= 3
        /\ \A i \in 1..(n - 1) : ~Ends(answers[i])
        /\ downloading => n < 3 /\ \A i \in 1..n : ~Ends(answers[i])
        /\ (~downloading /\ n > 0) => Ends(answers[n]) \/ n = 3
        /\ client.run.sleeps
              = SubSeq(<<1, 2>>, 1,
                       IF n > 0 /\ Ends(answers[n]) THEN n - 1
                       ELSE IF n < 3 THEN n ELSE 2)
        /\ (client.run.pc = "saved")
              => answers[n].status_code = 200 /\ answers[n].kind = "file"

\* a call gave up after three requests (a network error, a 500 and a redirect)
\* having waited 1 and 2 seconds
C25_Witness ==
    /\ client.run.pc = "idle"
    /\ client.run.result = "False"
    /\ Len(client.run.answers) = 3
    /\ client.run.sleeps = <<1, 2>>
    /\ {client.run.answers[i].status_code : i \in 1..3} = {0, 500, 302}

Position(log, event) ==
    IF \E i \in 1..Len(log) : log[i] = event
    THEN CHOOSE i \in 1..Len(log) : log[i] = event
    ELSE 0

\* C26: in an update() run that received a file the archive is extracted, the
\* existing destination is moved to the backup before any new file is written
\* to the destination, the files are installed, and the reload command is
\* invoked only after a successful installation; a failed installation gives
\* False without a reload, a successful one gives True even if the reload
\* command fails.
C26_InstallOrderAndResult ==
    LET run == client.run
        log == run.log
        at(event) == Position(log, event)
        finished == run.pc = "idle" /\ run.result # "none"
    IN  /\ \A i, j \in 1..Len(log) : i # j => log[i] # log[j]
        /\ at("backup") > 0 => at("extract") > 0 /\ at("extract") < at("backup")
        /\ at("write") > 0
              => /\ at("extract") > 0 /\ at("extract") < at("write")
                 /\ run.had_dest => at("backup") > 0 /\ at("backup") < at("write")
        /\ at("reload") > 0
              => run.installed /\ at("write") > 0 /\ at("write") < at("reload")
        /\ run.installed => run.dest = "files"
        /\ finished => /\ run.result = "True" <=> run.installed
                       /\ (run.installed /\ run.command # "") => at("reload") > 0

\* a run over an existing destination backed it up, installed the new files
\* and returned True although the reload command failed
C26_Witness ==
    /\ client.run.pc = "idle"
    /\ client.run.result = "True"
    /\ client.run.log = <<"extract", "backup", "write", "reload">>
    /\ ~client.run.reload_ok
    /\ client.run.bak = "files"

-----------------------------------------------------------------------------
(* certbot_hook.py: packaging runs over an output directory that holds no,   *)
(* one or several older .zip files, which other processes leave there        *)
(* between runs.                                                             *)

OlderFiles == {F_bk_zip, F_a_0_zip, F_a_0}

NextPackage ==
    \/ PackageRmtree
    \/ PackageMkdir
    \/ PackageCreateZip
    \/ PackageCloseZip
    \/ Tick
    \/ Requests
    \/ \E f \in OlderFiles : pkg = "idle" /\ PlaceFile(f)

SpecPackage == InitAccess /\ [][NextPackage]_vars

\* C27: when a packaging run returns success the output directory holds
\* exactly one file, the artifact {cert_name}_{timestamp}.zip of that run,
\* whatever the directory held before the run; runs do not accumulate
\* artifacts.
C27_OneArtifactAfterRun ==
    [][ (pkg = "writing" /\ pkg' = "idle")
        => /\ targets'.exists
           /\ Cardinality(DOMAIN targets'.files) = 1
           /\ \A f \in DOMAIN targets'.files :
                 /\ IsZip(f)
                 /\ parse_cert_filename(f).ok
                 /\ parse_cert_filename(f).name = cert_name
                 /\ parse_cert_filename(f).timestamp \in 0..now ]_vars

\* a run at time 300 has completed: the directory, which held the older
\* artifact a_0.zip and bk.zip in the states before, holds a_300.zip alone
C27_Witness ==
    /\ pkg = "idle"
    /\ now = cache_ttl_seconds
    /\ targets.exists
    /\ DOMAIN targets.files = {output_filename(now)}
    /\ targets.files[output_filename(now)] = now

-----------------------------------------------------------------------------
(* routes.py: _find_local_cert_file over the directories of SpecPackage *)

ZipFiles == {f \in DOMAIN targets.files : IsZip(f)}

\* C28: a missing target directory or one without a .zip file gives
\* not-found; a directory with exactly one .zip file gives that file; with
\* more than one the file of the greatest modification time is given, and the
\* request is answered from it.
C28_LookupNoneOneOrNewest ==
    /\ \A found \in find_local_cert_file(targets) :
          /\ (~targets.exists \/ ZipFiles = {}) => found = NoFile
          /\ (targets.exists /\ Cardinality(ZipFiles) = 1) => ZipFiles = {found}
          /\ (targets.exists /\ Cardinality(ZipFiles) > 1)
                => /\ found \in ZipFiles
                   /\ \A f \in ZipFiles : targets.files[found] >= targets.files[f]
    /\ Authorized
          => /\ resp.local_cert \in find_local_cert_file(targets)
             /\ resp.local_cert = NoFile <=> resp.status_code = 404
                                              /\ resp.message = "No certificate file available"
             /\ Outcome(resp) \in TerminalOutcomes

\* a forced download was served the newer of two .zip files, which the
\* directory lists after the older one
C28_Witness ==
    /\ Authorized
    /\ resp.kind = "file"
    /\ Cardinality(ZipFiles) = 2
    /\ \E f \in ZipFiles :
          /\ targets.files[f] < targets.files[resp.local_cert]
          /\ SelectSeq(targets.order, IsZip)[1] = f

-----------------------------------------------------------------------------
(* routes.py: _parse_cert_filename applied to filenames built from a name    *)
(* and a timestamp, and to filenames of other forms.  call records the       *)
(* filename parsed, how it was built and what the parse returned.            *)

MaxTimestamp == 11

\* certificate names: plain, with underscores, with a dot, containing ".zip"
ParseNames ==
    { <<"a">>, <<"a", "_", "b">>, <<"_", "a">>, <<"a", ".", "b">>,
      <<"a">> \o ZIP, <<"a">> \o ZIP \o <<"_", "b">> }

\* filenames that are not name_<decimal integer> with an optional .zip: no
\* underscore, a non-numeric, empty or signed last part, another extension
OtherForms ==
    { <<"b">>, <<"b">> \o ZIP, F_a_x, <<"a", "_">>, F_a_m1, F_a_m1 \o ZIP,
      <<"a", "_", "+", "1">>, <<"a", "_", "1", ".", "t", "x", "t">>,
      <<"a", "_", "1", ".", "z", "i">> }

ParseCall(filename, form, name, ts) ==
    /\ call' = [made |-> TRUE, filename |-> filename, form |-> form, name |-> name,
                ts |-> ts, parsed |-> parse_cert_filename(filename)]
    /\ UNCHANGED <<validatorVars, whitelistVars, envVars, storeVars, streak, wl, req,
                   resp, hist, flightVars, client>>

NextParse ==
    \/ \E name \in ParseNames, ts \in 0..MaxTimestamp, ext \in {<<>>, ZIP} :
          ParseCall(name \o <<"_">> \o IntToStr(ts) \o ext, "name_ts", name, ts)
    \/ \E filename \in OtherForms : ParseCall(filename, "other", <<>>, 0)

SpecParse == Init /\ [][NextParse]_vars

\* C29: parsing name_ts.zip and name_ts returns (name, ts) for every name,
\* names with underscores included, and every non-negative integer ts, the
\* split being on the last underscore; a filename of another form (no
\* underscore, a non-numeric or signed last part, another extension) is
\* rejected as invalid format.
C29_ParseRoundTripsAndRejects ==
    call.made
    => /\ call.form = "name_ts"
             => call.parsed = [ok |-> TRUE, name |-> call.name, timestamp |-> call.ts]
       /\ call.form = "other" => ~call.parsed.ok

-----------------------------------------------------------------------------
(* routes.py: _get_client_ip.  A header value is a sequence whose elements   *)
(* are addresses, commas and blanks; a header the request does not carry is  *)
(* NoHeader (headers.get returns None), and request.client is <<>> when the  *)
(* server has no peer address for the connection.                            *)

NoHeader == [present |-> FALSE, value |-> <<>>]

Header(v) == [present |-> TRUE, value |-> v]

\* the str a sequence of elements stands for
RECURSIVE Text(_)
Text(s) == IF s = <<>> THEN "" ELSE Head(s) \o Text(Tail(s))

\* s.split(",")[0]
RECURSIVE FirstField(_)
FirstField(s) ==
    IF s = <<>> \/ Head(s) = "," THEN <<>> ELSE <<Head(s)>> \o FirstField(Tail(s))

\* X-Real-IP is consulted before X-Forwarded-For
get_client_ip_real_ip_first(forwarded_for, real_ip, host) ==
    IF real_ip.present /\ real_ip.value # <<>>
    THEN Text(Strip(real_ip.value))
    ELSE IF forwarded_for.present /\ forwarded_for.value # <<>>
    THEN Text(Strip(FirstField(forwarded_for.value)))
    ELSE IF host # <<>> THEN host[1] ELSE "unknown"

\* _get_client_ip: "if forwarded_for:" and "if real_ip:" are false for None and
\* for the empty string
get_client_ip(forwarded_for, real_ip, host) ==
    IF forwarded_for.present /\ forwarded_for.value # <<>>
    THEN Text(Strip(FirstField(forwarded_for.value)))
    ELSE IF real_ip.present /\ real_ip.value # <<>>
    THEN Text(Strip(real_ip.value))
    ELSE IF host # <<>> THEN host[1] ELSE "unknown"

\* get_certificate for a request given by its headers and peer address: line
\* 176 extracts client_ip once for the whitelist step, the block check and
\* validate, and _log_audit (line 133) extracts it again from the same request
get_certificate_headers(forwarded_for, real_ip, host, token, file_name, download) ==
    \E client_ip \in {get_client_ip(forwarded_for, real_ip, host)} :
    \E r \in {[client_ip |-> get_client_ip(forwarded_for, real_ip, host),
                token |-> token, file_name |-> file_name, download |-> download]} :
    \E w \in {whitelist_step(domains, cache, last_update, client_ip, now, dns)} :
    \E a \in {authenticate([r EXCEPT !.client_ip = client_ip], failed_attempts,
                           tokens_map)} :
    \E local_cert \in find_local_cert_file(targets) :
    \E ans \in {respond(r, w.result, failed_attempts, a, local_cert,
                         parse_cert_filename(local_cert), parse_cert_filename(file_name))} :
       /\ call' = [made |-> TRUE, forwarded_for |-> forwarded_for, real_ip |-> real_ip,
                   host |-> host]
       /\ req' = r
       /\ resp' = [status_code |-> ans.out.status_code, kind |-> ans.out.kind,
                   status |-> ans.out.status, message |-> ans.out.message,
                   path |-> ans.out.path, audit |-> ans.out.audit,
                   local_cert |-> ans.local_cert,
                   validate_calls |-> ans.validate_calls, passes |-> w.passes,
                   repeat |-> FALSE]
       /\ failed_attempts' = ans.failed_attempts
       /\ cache' = w.cache
       /\ last_update' = w.last_update
       /\ hist' = NoRequest
       /\ UNCHANGED <<tokens_map, domains, envVars, storeVars, streak, wl, flightVars,
                      client>>

ForwardedFor ==
    { NoHeader, Header(<<>>), Header(<<IP2, " ", ",", " ", IP1>>),
      Header(<<" ", IP1, ",", IP2>>), Header(<<",", IP1>>) }

RealIP == { NoHeader, Header(<<>>), Header(<<" ", IP2, " ">>) }

Hosts == { <<>>, <<IP1>> }

InitHeaders ==
    \E doms \in DomainLists :
       ServerInit(doms, WriteFile([NoTargets EXCEPT !.exists = TRUE],
                                  output_filename(0), 0, 1))

NextHeaders ==
    \E forwarded_for \in ForwardedFor, real_ip \in RealIP, host \in Hosts,
       token \in {TokMaster, TokUnknown} :
       get_certificate_headers(forwarded_for, real_ip, host, token, F_a_0, FALSE)

SpecHeaders == InitHeaders /\ [][NextHeaders]_vars

\* the elements of v before its first comma
FirstEntry(v) ==
    CHOOSE e \in {SubSeq(v, 1, k) : k \in 0..Len(v)} :
       /\ \A i \in 1..Len(e) : e[i] # ","
       /\ Len(e) = Len(v) \/ v[Len(e) + 1] = ","

\* one address decides every step of the request: the whitelist step, the
\* block check, the failed-attempt counter and the audit record
UsedThroughout(ip) ==
    /\ req'.client_ip = ip
    /\ \A i \in 1..Len(resp'.audit) : resp'.audit[i].client_ip = ip
    /\ ( /\ domains # <<>>
         /\ ip \notin CachedIPs(cache)
         /\ ip \notin ResolvedIPs(dns) )
       => resp'.message = "Client IP not in whitelist"
    /\ (domains # <<>> /\ resp'.message # "Client IP not in whitelist")
       => ip \in CachedIPs(cache')
    /\ resp'.message = "Too many failed authentication attempts"
       <=> /\ domains = <<>> \/ ip \in CachedIPs(cache')
           /\ Get(failed_attempts, ip, 0) >= max_failed_attempts
    /\ (resp'.message = "Unauthorized access" /\ ip # "")
       => Get(failed_attempts', ip, 0) = Get(failed_attempts, ip, 0) + 1
    /\ \A other \in (DOMAIN failed_attempts \cup DOMAIN failed_attempts') \ {ip} :
          Get(failed_attempts', other, 0) = Get(failed_attempts, other, 0)

\* C30 as stated: the client IP of a request is the first entry of
\* X-Forwarded-For when that header is present and non-empty, otherwise the
\* X-Real-IP value when present, otherwise the connection address; and within
\* one request that value is used for the whitelist check, the block check,
\* the failed-attempt counter and the audit record.
C30_ClientIPFromHeaders ==
    [][ req' # NoRequest
        => UsedThroughout(
             IF call'.forwarded_for.present /\ call'.forwarded_for.value # <<>>
             THEN Text(Strip(FirstEntry(call'.forwarded_for.value)))
             ELSE IF call'.real_ip.present
             THEN Text(Strip(call'.real_ip.value))
             ELSE IF call'.host # <<>> THEN call'.host[1] ELSE "unknown") ]_vars

\* C30, amended: the client IP of a request is the first entry of
\* X-Forwarded-For (surrounding blanks removed) when that header is present
\* and non-empty, otherwise the X-Real-IP value (surrounding blanks removed)
\* when that header is present and non-empty, otherwise the connection address,
\* or "unknown" when the connection has none; and within one request that
\* value is used for the whitelist check, the block check, the failed-attempt
\* counter and the audit record.
C30_ClientIPFromNonEmptyHeaders ==
    [][ req' # NoRequest
        => UsedThroughout(
             IF call'.forwarded_for.present /\ call'.forwarded_for.value # <<>>
             THEN Text(Strip(FirstEntry(call'.forwarded_for.value)))
             ELSE IF call'.real_ip.present /\ call'.real_ip.value # <<>>
             THEN Text(Strip(call'.real_ip.value))
             ELSE IF call'.host # <<>> THEN call'.host[1] ELSE "unknown") ]_vars

\* a request forwarded for IP2 through a proxy chain, with X-Real-IP set and
\* from the peer address IP1, was refused for its token with the whitelist
\* configured: IP2 passed the whitelist and the failure was counted against IP2
C30_Witness ==
    /\ Handled
    /\ call.forwarded_for = Header(<<IP2, " ", ",", " ", IP1>>)
    /\ call.real_ip.present
    /\ call.host = <<IP1>>
    /\ domains # <<>>
    /\ resp.message = "Unauthorized access"
    /\ Len(resp.audit) = 1
    /\ resp.audit[1].client_ip = IP2
    /\ DOMAIN failed_attempts = {IP2}

-----------------------------------------------------------------------------
(* auth.py: sanitize_log_token applied to tokens of up to MaxTokenLen        *)
(* characters with visible_chars from 0 to MaxVisible; call records the      *)
(* arguments and the result.                                                 *)

MaxTokenLen == 4

MaxVisible == 3

MaskTokens == UNION {[1..n -> {"a", "b"}] : n \in 0..MaxTokenLen}

MaskCall(token, n) ==
    /\ call' = [made |-> TRUE, token |-> token, visible |-> n,
                masked |-> sanitize_log_token_showing(token, n)]
    /\ UNCHANGED <<validatorVars, whitelistVars, envVars, storeVars, streak, wl, req,
                   resp, hist, flightVars, client>>

NextMask == \E token \in MaskTokens, n \in 0..MaxVisible : MaskCall(token, n)

SpecMask == Init /\ [][NextMask]_vars

\* s occurs in t as a run of consecutive characters
Contains(t, s) == \E i \in 0..(Len(t) - Len(s)) : SubSeq(t, i + 1, i + Len(s)) = s

\* C31: for every token and every visible_chars of 0 or more, the masked
\* form is "***" followed by at most the last visible_chars characters of the
\* token, and is exactly "***" when the token is empty or not longer than
\* visible_chars; the masked form never contains the whole token.
C31_MaskShowsAtMostVisibleChars ==
    call.made
    => LET shown == SubSeq(call.masked, 4, Len(call.masked))
       IN  /\ SubSeq(call.masked, 1, 3) = <<"*", "*", "*">>
           /\ Len(shown) <= call.visible
           /\ Len(shown) <= Len(call.token)
           /\ shown = SubSeq(call.token, Len(call.token) - Len(shown) + 1,
                             Len(call.token))
           /\ (call.token = <<>> \/ Len(call.token) <= call.visible)
              => call.masked = <<"*", "*", "*">>
           /\ call.token # <<>> => ~Contains(call.masked, call.token)

-----------------------------------------------------------------------------
(* Startup: ServerSettings is built from the configuration, lifespan hands   *)
(* settings.token and settings.tokens to init_routes, and init_routes        *)
(* constructs the TokenValidator.  settings keeps the two values as          *)
(* configured, before the legacy token is merged.                            *)

\* the legacy token is merged only into an empty token map
merge_legacy_token_when_empty(token, tokens) ==
    IF token # <<>> /\ tokens = EmptyDict THEN Put(tokens, token, <<PatAll>>) ELSE tokens

\* ServerSettings.tokens after validation (test_legacy_token_merge): a
\* configured legacy token is an entry of the token map with permission ["*"]
merge_legacy_token(token, tokens) ==
    IF token # <<>> THEN Put(tokens, token, <<PatAll>>) ELSE tokens

\* init_routes, lines 43-45: "tokens or {}", and the legacy token by itself
\* when that map is empty
init_routes(token, tokens) ==
    IF tokens = EmptyDict /\ token # <<>> THEN Put(EmptyDict, token, <<PatAll>>)
    ELSE tokens

\* lifespan, line 42
lifespan(token, tokens) == init_routes(token, merge_legacy_token(token, tokens))

\* token maps as configured, without the legacy token
ConfiguredMaps ==
    { EmptyDict,
      TokClientA :> <<PatA>>,
      (TokClientA :> <<PatAZip, PatBOne>>) @@ (TokClientB :> <<>>) }

InitLegacy ==
    /\ settings \in [token : {<<>>, TokMaster}, tokens : ConfiguredMaps]
    /\ tokens_map = lifespan(settings.token, settings.tokens)
    /\ failed_attempts = EmptyDict
    /\ streak = [ip \in RealIPs |-> 0]
    /\ call = NoCall
    /\ domains = <<>>
    /\ cache = EmptyDict
    /\ last_update = <<>>
    /\ now = 0
    /\ dns = EmptyDict
    /\ targets = NoTargets
    /\ pkg = "idle"
    /\ wl = NoWl
    /\ req = NoRequest
    /\ resp = NoResponse
    /\ hist = NoRequest
    /\ tasks = NoTasks
    /\ lock = FreeLock
    /\ access = NoAccess
    /\ client = NoClient

SpecLegacy == InitLegacy /\ [][NextAuth]_vars

-----------------------------------------------------------------------------
(* The failed-attempt counters under the request handler alone               *)

\* C33: blocking is permanent through the request handler: once an IP is
\* blocked it stays blocked whatever requests, clock ticks and resolver
\* changes follow, and every later request from it that passes the whitelist
\* is answered 429 without a validation, also with a valid authorized token.
C33_BlockedStaysBlocked ==
    [][ \A ip \in RealIPs :
          is_blocked(failed_attempts, ip)
          => /\ is_blocked(failed_attempts', ip)
             /\ ( /\ req' # NoRequest
                  /\ req'.client_ip = ip
                  /\ domains = <<>> \/ ip \in CachedIPs(cache') )
                => /\ resp'.status_code = 429
                   /\ resp'.message = "Too many failed authentication attempts"
                   /\ resp'.validate_calls = 0 ]_vars

\* in open mode a blocked IP sent the master token for an existing artifact
\* and was answered 429, its counter still at the threshold
C33_Witness ==
    /\ Handled
    /\ domains = <<>>
    /\ req.token = TokMaster
    /\ find_local_cert_file(targets) # {NoFile}
    /\ resp.status_code = 429
    /\ Get(failed_attempts, req.client_ip, 0) = max_failed_attempts

(* Concurrent requests.  get_certificate is a coroutine on one event loop:   *)
(* with a whitelist configured it can be suspended at "await                 *)
(* is_whitelisted" (line 186), its only await, and other requests run in     *)
(* between; from the return of that await to the response it runs without    *)
(* suspension.  Without a whitelist it has no suspension point.  A suspended *)
(* request is kept in tasks with the counters as they were when it arrived.  *)

HandlerTasks == {"t1", "t2"}

\* the block check reads the counters when the request arrived, before the await
block_check_counters_before_await(seen, current) == seen

\* is_blocked (line 196) reads the validator's counters when it is called,
\* after the await
block_check_counters(seen, current) == current

\* lines 196-207 by themselves: the answer to a blocked IP
block_step(r, fa) ==
    [pass |-> FALSE, failed_attempts |-> fa, validate_calls |-> 0,
     out |-> JsonResponse(429, "error", "Too many failed authentication attempts",
                <<Audit(r, "denied", "client_blocked", <<>>)>>)]

\* lines 209-229 by themselves: validate and the token denial
validate_step(r, fa, tmap) ==
    LET is_valid == verify_access(r.token, r.file_name, tmap)
        fa2 == validate_attempts(fa, is_valid, r.client_ip)
    IN  IF ~is_valid
        THEN [pass |-> FALSE, failed_attempts |-> fa2, validate_calls |-> 1,
              out |-> JsonResponse(403, "error", "Unauthorized access",
                   <<Audit(r, "denied", "unauthorized_or_invalid_token", <<>>)>>)]
        ELSE [pass |-> TRUE, failed_attempts |-> fa2, validate_calls |-> 1,
              out |-> NoResponse]

\* a request arrives and is suspended at the whitelist await
HandlerBegin(t, client_ip, token, file_name, download) ==
    /\ domains # <<>>
    /\ tasks[t].pc = "idle"
    /\ tasks' = [tasks EXCEPT ![t] =
                    [pc |-> "awaiting",
                     r |-> [client_ip |-> client_ip, token |-> token,
                            file_name |-> file_name, download |-> download],
                     seen |-> failed_attempts]]
    /\ Cleared
    /\ UNCHANGED <<validatorVars, whitelistVars, envVars, storeVars, call, streak,
                   hist, lock, access, settings, client>>

\* the await returns and the handler runs to its response
HandlerResume(t) ==
    /\ tasks[t].pc = "awaiting"
    /\ \E r \in {tasks[t].r} :
       \E w \in {whitelist_step(domains, cache, last_update, r.client_ip, now, dns)} :
       \E a \in {IF is_blocked(block_check_counters(tasks[t].seen, failed_attempts),
                               r.client_ip)
                 THEN block_step(r, failed_attempts)
                 ELSE validate_step(r, failed_attempts, tokens_map)} :
       \E local_cert \in find_local_cert_file(targets) :
       \E ans \in {respond(r, w.result, failed_attempts, a, local_cert,
                            parse_cert_filename(local_cert),
                            parse_cert_filename(r.file_name))} :
          /\ req' = r
          /\ resp' = [status_code |-> ans.out.status_code, kind |-> ans.out.kind,
                      status |-> ans.out.status, message |-> ans.out.message,
                      path |-> ans.out.path, audit |-> ans.out.audit,
                      local_cert |-> ans.local_cert,
                      validate_calls |-> ans.validate_calls, passes |-> w.passes,
                      repeat |-> FALSE]
          /\ failed_attempts' = ans.failed_attempts
          /\ cache' = w.cache
          /\ last_update' = w.last_update
          /\ hist' = NoRequest
          /\ tasks' = [tasks EXCEPT ![t] = IdleTask]
          /\ UNCHANGED <<tokens_map, domains, envVars, storeVars, call, streak, wl,
                         lock, access, settings, client>>

InitHandlers ==
    \E doms \in DomainLists :
       /\ ServerInit(doms, WriteFile([NoTargets EXCEPT !.exists = TRUE],
                                     output_filename(0), 0, 1))
       /\ \A d \in Range(doms) : ~dns[d].err

NextHandlers ==
    \/ \E t \in HandlerTasks, client_ip \in RealIPs, token \in {TokMaster, TokUnknown} :
          HandlerBegin(t, client_ip, token, F_a_0, FALSE)
    \/ \E t \in HandlerTasks : HandlerResume(t)
    \/ \E client_ip \in RealIPs, token \in {TokMaster, TokUnknown} :
          /\ domains = <<>>
          /\ get_certificate(client_ip, token, F_a_0, FALSE)
          /\ UNCHANGED client

SpecHandlers == InitHandlers /\ [][NextHandlers]_vars

\* C34: with the counters changed only through the request handler, no IP's
\* counter exceeds the blocking threshold, whatever the number of requests and
\* the interleaving of concurrent requests from one IP: a token denial (403)
\* is given only while the counter is below the threshold and raises it by
\* one, and a request that finds the counter at the threshold gets 429.
C34_CounterNeverExceedsThreshold ==
    [][ /\ \A ip \in DOMAIN failed_attempts' :
              failed_attempts'[ip] <= max_failed_attempts
        /\ req' # NoRequest
           => /\ resp'.message = "Unauthorized access"
                 => /\ Get(failed_attempts, req'.client_ip, 0) < max_failed_attempts
                    /\ Get(failed_attempts', req'.client_ip, 0)
                          = Get(failed_attempts, req'.client_ip, 0) + 1
              /\ ( /\ Get(failed_attempts, req'.client_ip, 0) >= max_failed_attempts
                   /\ domains = <<>> \/ req'.client_ip \in CachedIPs(cache') )
                 => resp'.status_code = 429 ]_vars

\* the denial that brought an IP's counter to the threshold was given while
\* another request with a bad token from the same IP, which had arrived when
\* the counter was lower, was suspended
C34_Witness ==
    /\ Handled
    /\ resp.message = "Unauthorized access"
    /\ Get(failed_attempts, req.client_ip, 0) = max_failed_attempts
    /\ \E t \in HandlerTasks :
          /\ tasks[t].pc = "awaiting"
          /\ tasks[t].r.client_ip = req.client_ip
          /\ tasks[t].r.token = TokUnknown
          /\ Get(tasks[t].seen, req.client_ip, 0) < max_failed_attempts

\* C35: a request denied by the whitelist check (403) or by the block check
\* (429) leaves every failed-attempt counter unchanged, whatever its token;
\* a request that passes token validation clears the counter of its IP, and
\* no other counter, also when it then ends in 404, 500 or 400.
C35_DenialsKeepCountersSuccessClears ==
    [][ req' # NoRequest
        => /\ resp'.message \in {"Client IP not in whitelist",
                                 "Too many failed authentication attempts"}
              => failed_attempts' = failed_attempts
           /\ ( /\ domains = <<>> \/ req'.client_ip \in CachedIPs(cache')
                /\ Get(failed_attempts, req'.client_ip, 0) < max_failed_attempts
                /\ verify_access(req'.token, req'.file_name, tokens_map) )
              => /\ req'.client_ip \notin DOMAIN failed_attempts'
                 /\ \A ip \in DOMAIN failed_attempts \ {req'.client_ip} :
                       /\ ip \in DOMAIN failed_attempts'
                       /\ failed_attempts'[ip] = failed_attempts[ip]
                 /\ resp'.validate_calls = 1 ]_vars

\* a request with a valid token found the only .zip file of the targets
\* directory unparsable (500); its IP, admitted by the whitelist, has no counter
C35_Witness ==
    /\ Handled
    /\ domains # <<>>
    /\ resp.status_code = 500
    /\ resp.validate_calls = 1
    /\ verify_access(req.token, req.file_name, tokens_map)
    /\ req.client_ip \notin DOMAIN failed_attempts

-----------------------------------------------------------------------------
(* The two spellings of a requested artifact.  get_certificate hands the     *)
(* filename as requested to validate (target_file = file_name, lines 211-219)*)

\* C36: the authorization decision does not depend on which of the two
\* accepted spellings of a filename is requested: for every token and every
\* artifact name_ts, "name_ts" is authorized if and only if "name_ts.zip" is,
\* also for tokens whose permission patterns end in ".zip".
C36_SpellingDoesNotDecide ==
    call.made
    => \A f \in {F_a_0, F_b_0} :
          call.filename \in {f, f \o ZIP}
          => ( call.is_valid <=> /\ verify_access(call.token, f, tokens_map)
                                 /\ verify_access(call.token, f \o ZIP, tokens_map) )

-----------------------------------------------------------------------------
(* Termination of the WhitelistManager calls.  The event loop runs every     *)
(* coroutine that is ready (a waiter that was handed the lock), and every    *)
(* name lookup terminates, so the gather of a pass returns.                  *)

FlightFairness ==
    \A t \in Tasks : WF_vars(Resume(t)) /\ WF_vars(FinishPass(t))

\* the callers and the resolver, the clock standing still
NextFlightLive ==
    \/ \E t \in Tasks, force \in BOOLEAN : CallRefreshCache(t, force)
    \/ \E t \in Tasks, client_ip \in FlightIPs : CallIsWhitelisted(t, client_ip)
    \/ \E t \in Tasks : Resume(t)
    \/ \E t \in Tasks : FinishPass(t)
    \/ \E answer \in Answers : DnsChange(D1, answer)

SpecFlightLive == InitFlight /\ [][NextFlightLive]_vars /\ FlightFairness

\* C37: the refresh lock is always released: every caller of refresh_cache or
\* is_whitelisted eventually returns, also when lookups fail inside a pass and
\* however many callers are waiting; no caller waits forever on the lock.
C37_EveryCallerReturns ==
    \A t \in Tasks : (tasks[t].pc # "idle") ~> (tasks[t].pc = "idle")

\* every caller has returned and the lock is free after a pass whose lookup
\* failed, and one of the callers had been queued during another's pass
C37_Witness ==
    /\ AllIdle
    /\ lock = FreeLock
    /\ dns[D1].err
    /\ last_update = <<now>>
    /\ D1 \in DOMAIN cache /\ cache[D1] = {}
    /\ \E t \in Tasks : tasks[t].waited /\ tasks[t].op = "is_whitelisted"

-----------------------------------------------------------------------------
(* downloader.py: what a failed installation leaves behind                   *)

\* C38: an update() run that returns False because the installation failed
\* leaves the client as it was before the run: the previously installed
\* certificate directory is still at the destination path and the previously
\* cached artifact is still the cached artifact (so that the next run asks
\* with the old timestamp and retries the installation).
C38_FailedInstallLeavesClientAsBefore ==
    ( /\ client.run.pc = "idle"
      /\ client.run.result = "False"
      /\ client.run.archive # "none" )
    => /\ client.run.dest = client.run.dest0
       /\ client.run.cached # "downloaded"

-----------------------------------------------------------------------------
(* certbot_hook.py: packaging runs that return failure.  pkg = "failed" is   *)
(* the state in which package() has returned None.                           *)

PackageFailed(t) ==
    /\ pkg' = "failed"
    /\ targets' = t
    /\ Cleared
    /\ hist' = NoRequest
    /\ UNCHANGED <<validatorVars, whitelistVars, envVars, call, streak, flightVars,
                   client>>

\* directory t with only the files in kept left
Keep(t, kept) ==
    [t EXCEPT !.files = [f \in kept |-> t.files[f]],
              !.order = SelectSeq(t.order, LAMBDA f : f \in kept)]

\* _validate_paths returns False (lines 56-73): the source directory or a
\* required file is missing; package() returns before the output directory is
\* touched
PackageValidateFails ==
    /\ pkg = "idle"
    /\ PackageFailed(targets)

\* shutil.rmtree raises (lines 87-101) after it has removed some, all or none
\* of the files
PackageRmtreeFails ==
    /\ pkg = "idle"
    /\ targets.exists
    /\ \E kept \in SUBSET DOMAIN targets.files : PackageFailed(Keep(targets, kept))

\* output_dir.mkdir raises after the directory has been removed
PackageMkdirFails ==
    /\ pkg = "removed"
    /\ PackageFailed(targets)

\* zipfile.ZipFile(output_path, "w") raises (lines 116-119, 139-141): no file
\* is created
PackageCreateZipFails ==
    /\ pkg = "ready"
    /\ PackageFailed(targets)

\* writing a member raises (lines 121-125, 139-141): the archive is closed by
\* the with statement and stays, incomplete, in the output directory
PackageWriteFails ==
    /\ pkg = "writing"
    /\ PackageFailed(targets)

\* the hook process ends; a later renewal runs the hook again
PackageReturn ==
    /\ pkg = "failed"
    /\ pkg' = "idle"
    /\ Cleared
    /\ hist' = NoRequest
    /\ UNCHANGED <<validatorVars, whitelistVars, envVars, targets, call, streak,
                   flightVars, client>>

NextPackageFail ==
    \/ Requests
    \/ Tick
    \/ PackageRmtree
    \/ PackageMkdir
    \/ PackageCreateZip
    \/ PackageCloseZip
    \/ PackageValidateFails
    \/ PackageRmtreeFails
    \/ PackageMkdirFails
    \/ PackageCreateZipFails
    \/ PackageWriteFails
    \/ PackageReturn

SpecPackageFail == InitReplace /\ [][NextPackageFail]_vars

\* C39: a packaging run that returns failure leaves the previously published
\* artifact in the output directory, so that the server keeps serving it:
\* when the run has returned failure the output directory exists and the
\* server's lookup finds an artifact, one that was there, complete, before the
\* failing step; this whether the source directory or a required file is
\* missing, or preparing the output directory or writing the archive fails.
C39_FailedRunKeepsPublishedArtifact ==
    [][ pkg' = "failed"
        => /\ targets'.exists
           /\ \A local_cert \in find_local_cert_file(targets') :
                 /\ local_cert # NoFile
                 /\ local_cert \in DOMAIN targets.files
                 /\ local_cert \notin Writing ]_vars

====
